---- MODULE Spec2Model ----
(***************************************************************************)
(* Model of the repoxy caching proxy engine for one (repo, key):           *)
(* the blob store (internal/cache), the per-key lock table, the index,     *)
(* the proxy handler (hit path, miss path with the tee, revalidation),     *)
(* the destroy paths (janitor eviction, admin purge) and process restart.  *)
(***************************************************************************)
EXTENDS Integers, Sequences, FiniteSets, TLC

\* ------------------------------------------------------------------ bounds
NReq == 3          \* client requests of the miss scenario
NEng == 2          \* client requests of the full engine scenario
MaxTime == 2       \* the clock runs 0..MaxTime
MaxVer == 2        \* upstream publishes versions 1..MaxVer of the object
MaxRuns == 1       \* destroy runs (janitor cleanup / purge) per behaviour
MaxSize == 2       \* cached blobs of the range scenario have 0..MaxSize bytes
MaxHdr == 5        \* characters of a Range header after "bytes="
NKeys == 3         \* cache entries of the destroy-path scenarios
MaxCalls == 2      \* calls of RebuildFromDisk per behaviour
MaxTail == 4       \* characters of a request path after its first segment

\* ------------------------------------------------------------ configuration
LockTimeout == 1   \* cache.lock_timeout, in clock ticks
CacheTTL == 1      \* policy.cache_ttl, in clock ticks
MaxSizeBytes == 2  \* cache.max_size_bytes
InactiveTTL == 1   \* cache.inactive_ttl, in clock ticks

Reqs == 1..NReq
Inodes == 1..(NReq + 1)
Mutexes == 1..NReq
Vers == 1..MaxVer

\* The body of version v of the upstream object: v+1 bytes, each tagged v.
Body(v) == [i \in 1..(v + 1) |-> v]

NoMeta == [none |-> TRUE]
\* A meta.json that json.Unmarshal rejects.
BadMeta == [bad |-> TRUE]
NoEntry == [none |-> TRUE]

VARIABLES
  now,        \* wall clock
  pc,         \* pc[r]: position of request r in ServeHTTP
  blobIno,    \* inode at <dir>/<repo>/<key>/blob, 0 when the path is absent
  tmpIno,     \* inode at <dir>/<repo>/<key>/blob.tmp, 0 when absent
  inodes,     \* inodes[i]: bytes of inode i
  metaFile,   \* decoded content of meta.json, NoMeta when absent
  index,      \* the index row of the key, NoEntry when absent
  stats,      \* the stats bucket: [hits, misses]
  locksMap,   \* LockManager.locks[key]: a mutex, 0 when the key is absent
  mutex,      \* mutex[m]: request whose goroutine locked m, 0 when unlocked
  gor,        \* gor[r]: the lock goroutine Acquire spawned for r
  deadline,   \* deadline[r]: when r's time.After(lm.timeout) fires
  held,       \* held[r]: r got a non-nil lock and deferred ReleaseLock
  fatal,      \* the runtime threw (unlock of unlocked mutex): process dead
  meta,       \* meta[r]: the *Metadata r's handler works on
  fd,         \* fd[r]: inode of the file r's handler or its Put has open
  woff,       \* woff[r]: bytes r's Put has written through its descriptor
  ppc,        \* ppc[r]: position of the Put goroutine of r's miss
  perr,       \* perr[r]: the error Put sent on errCh
  copyErr,    \* copyErr[r]: io.Copy(w, tee) failed
  up,         \* up[r]: the upstream response r's fetch received
  sent,       \* sent[r]: body bytes written to r's client
  resp,       \* resp[r]: status line and headers answered to r
  upVer,      \* version the upstream currently serves
  gets,       \* number of upstream GETs issued by miss paths
  rv,         \* rv[r]: position of the revalidate goroutine r's hit spawned
  rvup,       \* rvup[r]: the upstream response that revalidation received
  rvmeta,     \* rvmeta[r]: newMeta of that revalidation
  rvfd,       \* rvfd[r]: inode its Put has open
  rvoff,      \* rvoff[r]: bytes its Put has written
  dpc,        \* position of the destroy run (janitor cleanup or purge)
  druns,      \* destroy runs started so far
  seen,       \* seen[r]: what r's Exists calls and stale check observed
  swr,        \* policy.allow_stale_while_revalidate of the matched policy
  relAt,      \* history: when a request that fetched and published released
  boot,       \* the process: running, killed, or started again
  rangeHdr,   \* the Range header of the requests, <<>> when they carry none
  cat,        \* the whole cache: index rows, blobs and sidecars per key
  run,        \* the destroy run (janitor or purge) over the whole cache
  sup,        \* process start: position of main, sidecar contents per key
  rt,         \* the request ServeHTTP is classifying: method, path, outcome
  adm,        \* the admin surface: purge API configuration and last answer
  lst         \* a call of Index.ListByLRU: its limit and what it returned

vars == <<now, pc, blobIno, tmpIno, inodes, metaFile, index, stats, locksMap,
          mutex, gor, deadline, held, fatal, meta, fd, woff, ppc, perr,
          copyErr, up, sent, resp, upVer, gets, rv, rvup, rvmeta, rvfd,
          rvoff, dpc, druns, seen, swr, relAt, boot, rangeHdr,
          cat, run, sup, rt, adm, lst>>

\* ------------------------------------------------------------------ files
\* A write of byte b at offset off (0-based) of a file; a gap reads as 0.
WriteAt(bytes, off, b) ==
  IF off < Len(bytes)
    THEN [bytes EXCEPT ![off + 1] = b]
    ELSE bytes \o [i \in 1..(off - Len(bytes)) |-> 0] \o <<b>>

\* Inodes no path and no descriptor refers to are gone: their bytes are
\* dropped, and os.Create of a missing path takes the first such inode.
Referenced(b, t, f, g) ==
  ({b, t} \cup {f[r] : r \in Reqs} \cup {g[r] : r \in Reqs}) \ {0}

Reclaim(ino, b, t, f, g) ==
  [i \in Inodes |-> IF i \in Referenced(b, t, f, g) THEN ino[i] ELSE <<>>]

FreshIno == CHOOSE i \in Inodes : i \notin Referenced(blobIno, tmpIno, fd, rvfd)

\* os.Create(tmpPath): O_CREAT|O_TRUNC. An existing blob.tmp keeps its inode
\* and loses its bytes; otherwise a new inode appears at the path.
CreateTmp == IF tmpIno # 0 THEN tmpIno ELSE FreshIno


diskV == <<blobIno, tmpIno, inodes, metaFile>>
idxV == <<index, stats>>
lockV == <<locksMap, mutex, gor, deadline, held, fatal>>
putV == <<meta, fd, woff, ppc, perr, copyErr, up>>
outV == <<sent, resp, seen>>
rvV == <<rv, rvup, rvmeta, rvfd, rvoff>>
delV == <<dpc, druns>>
envV == <<now, upVer, gets, swr>>
histV == <<relAt, boot>>
restV == <<rangeHdr, cat, run, sup, rt, adm, lst>>

\* ------------------------------------------------------------- blob store
\* Store.Exists is two stat calls: the blob first, the sidecar second.
StatBlob == blobIno # 0
StatMeta == metaFile # NoMeta
Exists == StatBlob /\ StatMeta

\* The bytes at the canonical blob path.
BlobBytes == IF blobIno = 0 THEN <<>> ELSE inodes[blobIno]

\* What a client is answered: status, X-Cache, X-Cache-Status, Content-Length.
NoRange == [star |-> FALSE, start |-> 0, end |-> 0, size |-> -1]
Resp(st, xc, xs, cl) ==
  [status |-> st, xcache |-> xc, xstatus |-> xs, clen |-> cl, crange |-> NoRange]

\* ------------------------------------------------------------- lock table
FreshMutex ==
  CHOOSE m \in Mutexes :
    /\ m # locksMap
    /\ \A r \in Reqs : gor[r].st # "none" => gor[r].m # m
    /\ \A k \in Mutexes : k < m =>
         (k = locksMap \/ \E r \in Reqs : gor[r].st # "none" /\ gor[r].m = k)

\* LockManager.Acquire up to the select: get or create the key's mutex under
\* lm.mu, start the goroutine that will lock it, arm the timer.
Acquire(r) ==
  /\ pc[r] = "acquire"
  /\ LET m == IF locksMap = 0 THEN FreshMutex ELSE locksMap IN
       /\ locksMap' = m
       /\ gor' = [gor EXCEPT ![r] = [m |-> m, st |-> "waiting"]]
  /\ deadline' = [deadline EXCEPT ![r] = now + LockTimeout]
  /\ pc' = [pc EXCEPT ![r] = "select"]
  /\ UNCHANGED <<mutex, held, fatal, diskV, idxV, putV, outV, rvV, delV, envV, histV, restV>>

\* The goroutine of Acquire: lock.Lock() returns once the mutex is free. It
\* is not cancelled by the timeout of its caller.
GoLock(r) ==
  /\ gor[r].st = "waiting"
  /\ mutex[gor[r].m] = 0
  /\ mutex' = [mutex EXCEPT ![gor[r].m] = r]
  /\ gor' = [gor EXCEPT ![r].st = "locked"]
  /\ UNCHANGED <<locksMap, deadline, held, fatal, pc, diskV, idxV, putV, outV,
                 rvV, delV, envV, histV, restV>>

\* select, case <-done: Acquire returns the lock; ServeHTTP defers ReleaseLock.
SelectDone(r) ==
  /\ pc[r] = "select"
  /\ gor[r].st = "locked"
  /\ held' = [held EXCEPT ![r] = TRUE]
  /\ pc' = [pc EXCEPT ![r] = "recheck"]
  /\ UNCHANGED <<locksMap, mutex, gor, deadline, fatal, diskV, idxV, putV,
                 outV, rvV, delV, envV, histV, restV>>

\* select, case <-time.After(lm.timeout): delete(lm.locks, key), error; the
\* handler answers 503.
SelectTimeout(r) ==
  /\ pc[r] = "select"
  /\ now >= deadline[r]
  /\ locksMap' = 0
  /\ resp' = [resp EXCEPT ![r] = Resp(503, "", "", 0)]
  /\ pc' = [pc EXCEPT ![r] = "done"]
  /\ UNCHANGED <<mutex, gor, deadline, held, fatal, diskV, idxV, putV, sent,
                 seen, rvV, delV, envV, histV, restV>>

\* LockManager.Release, run by the deferred ReleaseLock: if the key is in the
\* map, delete it and Unlock the mutex found there. Unlocking an unlocked
\* sync.Mutex is a fatal runtime error: the process exits, and with it every
\* goroutine and open descriptor.
Release(r) ==
  /\ pc[r] = "release"
  /\ IF locksMap # 0 /\ mutex[locksMap] = 0
       THEN /\ fatal' = TRUE
            /\ pc' = [q \in Reqs |-> "dead"]
            /\ gor' = [q \in Reqs |-> [m |-> 0, st |-> "none"]]
            /\ ppc' = [q \in Reqs |-> "none"]
            /\ rv' = [q \in Reqs |-> "none"]
            /\ dpc' = "dead"
            /\ fd' = [q \in Reqs |-> 0]
            /\ rvfd' = [q \in Reqs |-> 0]
            /\ inodes' = Reclaim(inodes, blobIno, tmpIno, fd', rvfd')
            /\ UNCHANGED <<locksMap, mutex>>
       ELSE /\ locksMap' = 0
            /\ mutex' = IF locksMap # 0 THEN [mutex EXCEPT ![locksMap] = 0] ELSE mutex
            /\ pc' = [pc EXCEPT ![r] = "done"]
            /\ UNCHANGED <<fatal, gor, ppc, rv, dpc, fd, rvfd, inodes>>
  /\ relAt' = IF relAt = -1 /\ ppc[r] = "done" /\ ~copyErr[r] /\ ~perr[r]
                THEN now ELSE relAt
  /\ UNCHANGED <<boot, restV>>
  /\ UNCHANGED <<deadline, held, blobIno, tmpIno, metaFile, idxV, meta, woff,
                 perr, copyErr, up, outV, rvup, rvmeta, rvoff, druns, envV>>

\* A handler that returns without its deferred ReleaseLock.
Ret_NoDefer(r) == "done"

\* Where a handler goes when it returns: to its deferred ReleaseLock if any.
Ret(r) == IF held[r] THEN "release" ELSE "done"


\* ------------------------------------------------------------ proxy: miss
\* A Cache-Control header line, as the set of directives its value contains.
CCLines == {{"max-age"}, {"no-store"}, {"private"}}

\* The Cache-Control lines an upstream response may carry, in order: none,
\* one, or two.
CCs == {<<>>} \cup {<<a>> : a \in CCLines} \cup {<<a, b>> : a, b \in CCLines}

\* resp.Header.Get("Cache-Control"): the value of the first line, or the empty
\* string.
HeaderGet(h) == IF h = <<>> THEN {} ELSE h[1]

\* What client.Do can return: a transport error (status 0) or a response.
Responses == [status : {200, 404}, cc : CCs] \cup {[status |-> 0, cc |-> <<>>]}
OkResponses == {[status |-> 200, cc |-> <<>>]}

\* Handler.isCacheable
isCacheable(h) ==
  LET cc == HeaderGet(h) IN ~("no-store" \in cc \/ "private" \in cc)

\* updateCacheIndex: the row Index.Put stores for a sidecar.
IndexEntry(m) == [size |-> m.size, lastAccess |-> m.lastAccess, hits |-> m.hits]

\* ServeHTTP, first h.store.Exists: stat of the blob.
StatBlob1(r) ==
  /\ pc[r] = "start"
  /\ seen' = [seen EXCEPT ![r].blob = StatBlob]
  /\ pc' = [pc EXCEPT ![r] = "stat1"]
  /\ UNCHANGED <<diskV, idxV, lockV, putV, sent, resp, rvV, delV, envV, histV, restV>>

\* ServeHTTP, first h.store.Exists: stat of the sidecar, then the branch.
StatMeta1(r) ==
  /\ pc[r] = "stat1"
  /\ pc' = [pc EXCEPT ![r] = IF seen[r].blob /\ StatMeta THEN "hit" ELSE "acquire"]
  /\ UNCHANGED <<diskV, idxV, lockV, putV, outV, rvV, delV, envV, histV, restV>>

\* ServeHTTP, the double-check after the lock: stat of the blob.
StatBlob2(r) ==
  /\ pc[r] = "recheck"
  /\ seen' = [seen EXCEPT ![r].blob = StatBlob]
  /\ pc' = [pc EXCEPT ![r] = "stat2"]
  /\ UNCHANGED <<diskV, idxV, lockV, putV, sent, resp, rvV, delV, envV, histV, restV>>

\* ServeHTTP, the double-check after the lock: stat of the sidecar.
StatMeta2(r) ==
  /\ pc[r] = "stat2"
  /\ pc' = [pc EXCEPT ![r] = IF seen[r].blob /\ StatMeta THEN "hit" ELSE "fetch"]
  /\ UNCHANGED <<diskV, idxV, lockV, putV, outV, rvV, delV, envV, histV, restV>>

\* fetchAndCache up to the tee: the upstream GET and the three early returns
\* (transport error, not cacheable, status other than 200); otherwise the
\* metadata is created, the Put goroutine started and the headers written.
Fetch(r, Rs) ==
  /\ pc[r] = "fetch"
  /\ gets' = [gets EXCEPT !.miss = @ + 1]
  /\ \E u \in Rs :
       /\ up' = [up EXCEPT ![r] = [status |-> u.status, cc |-> u.cc, ver |-> upVer]]
       /\ IF u.status = 0
            THEN /\ resp' = [resp EXCEPT ![r] = Resp(502, "", "", 0)]
                 /\ pc' = [pc EXCEPT ![r] = Ret(r)]
                 /\ UNCHANGED <<sent, stats, meta, ppc>>
          ELSE IF ~isCacheable(u.cc)
            THEN /\ resp' = [resp EXCEPT ![r] = Resp(u.status, "BYPASS", "", 0)]
                 /\ sent' = [sent EXCEPT ![r] = Body(upVer)]
                 /\ stats' = [stats EXCEPT !.misses = @ + 1]
                 /\ pc' = [pc EXCEPT ![r] = Ret(r)]
                 /\ UNCHANGED <<meta, ppc>>
          ELSE IF u.status # 200
            THEN /\ resp' = [resp EXCEPT ![r] = Resp(u.status, "MISS", "", 0)]
                 /\ sent' = [sent EXCEPT ![r] = Body(upVer)]
                 /\ stats' = [stats EXCEPT !.misses = @ + 1]
                 /\ pc' = [pc EXCEPT ![r] = Ret(r)]
                 /\ UNCHANGED <<meta, ppc>>
          ELSE /\ meta' = [meta EXCEPT ![r] =
                     [size |-> 0, etag |-> upVer, createdAt |-> now,
                      lastAccess |-> now, hits |-> 1]]
               /\ ppc' = [ppc EXCEPT ![r] = "create"]
               /\ resp' = [resp EXCEPT ![r] = Resp(200, "MISS", "", 0)]
               /\ pc' = [pc EXCEPT ![r] = "tee"]
               /\ UNCHANGED <<sent, stats>>
  /\ UNCHANGED <<diskV, index, lockV, fd, woff, perr, copyErr, seen, rvV, delV,
                 now, upVer, swr, histV, restV>>

\* Store.Put in the goroutine of the miss: MkdirAll and os.Create(blob.tmp).
PutCreate(r) ==
  /\ ppc[r] = "create"
  /\ LET i == CreateTmp IN
       /\ tmpIno' = i
       /\ inodes' = [inodes EXCEPT ![i] = <<>>]
       /\ fd' = [fd EXCEPT ![r] = i]
  /\ woff' = [woff EXCEPT ![r] = 0]
  /\ ppc' = [ppc EXCEPT ![r] = "copy"]
  /\ seen' = [seen EXCEPT ![r].fresh = ~Exists /\ index = NoEntry]
  /\ UNCHANGED <<pc, blobIno, metaFile, idxV, lockV, meta, perr, copyErr, up,
                 sent, resp, rvV, delV, envV, histV, restV>>

\* Store.Put fails before it reads the pipe: MkdirAll or os.Create returns an
\* error, Put returns it and the goroutine sends it on errCh. Nobody reads
\* the pipe from now on, and nobody closes its read end.
PutCreateFail(r) ==
  /\ ppc[r] = "create"
  /\ perr' = [perr EXCEPT ![r] = TRUE]
  /\ ppc' = [ppc EXCEPT ![r] = "done"]
  /\ UNCHANGED <<pc, diskV, idxV, lockV, meta, fd, woff, copyErr, up, outV, rvV,
                 delV, envV, histV, restV>>

\* A round of the tee in which Put's io.Copy has taken the byte from the pipe
\* and its write to blob.tmp fails: Put removes blob.tmp, returns the error
\* and closes its descriptor; the byte still goes to the client. The read
\* end of the pipe stays open and unread.
PutWriteFail(r) ==
  /\ pc[r] = "tee"
  /\ ppc[r] = "copy"
  /\ LET body == Body(up[r].ver)
         n == Len(sent[r]) IN
       /\ n < Len(body)
       /\ sent' = [sent EXCEPT ![r] = Append(@, body[n + 1])]
  /\ perr' = [perr EXCEPT ![r] = TRUE]
  /\ ppc' = [ppc EXCEPT ![r] = "done"]
  /\ tmpIno' = 0
  /\ fd' = [fd EXCEPT ![r] = 0]
  /\ inodes' = Reclaim(inodes, blobIno, 0, fd', rvfd)
  /\ UNCHANGED <<pc, blobIno, metaFile, idxV, lockV, meta, woff, copyErr, up,
                 resp, seen, rvV, delV, envV, histV, restV>>

\* One round of io.Copy(w, tee): TeeReader reads a byte of the upstream body,
\* writes it to the pipe (which completes when Put's io.Copy has taken it and
\* writes it to its descriptor), then the byte is written to the client. The
\* upstream read or the client write may fail (fail = TRUE); at the end of
\* the body, or on failure, io.Copy returns and pw.Close() follows.
TeeChunk(r, fail) ==
  /\ pc[r] = "tee"
  /\ LET body == Body(up[r].ver)
         n == Len(sent[r]) IN
       \/ /\ n = Len(body)
          /\ pc' = [pc EXCEPT ![r] = "wait"]
          /\ UNCHANGED <<inodes, woff, sent, copyErr>>
       \/ /\ n < Len(body)
          /\ ppc[r] = "copy"
          /\ inodes' = [inodes EXCEPT ![fd[r]] = WriteAt(@, woff[r], body[n + 1])]
          /\ woff' = [woff EXCEPT ![r] = @ + 1]
          /\ \/ /\ sent' = [sent EXCEPT ![r] = Append(@, body[n + 1])]
                /\ UNCHANGED <<pc, copyErr>>
             \/ /\ fail
                /\ copyErr' = [copyErr EXCEPT ![r] = TRUE]
                /\ pc' = [pc EXCEPT ![r] = "wait"]
                /\ UNCHANGED sent
       \/ /\ fail
          /\ n < Len(body)
          /\ copyErr' = [copyErr EXCEPT ![r] = TRUE]
          /\ pc' = [pc EXCEPT ![r] = "wait"]
          /\ UNCHANGED <<inodes, woff, sent>>
  /\ UNCHANGED <<blobIno, tmpIno, metaFile, idxV, lockV, meta, fd, ppc, perr,
                 up, resp, seen, rvV, delV, envV, histV, restV>>

\* Store.Put after its io.Copy saw the end of the pipe: Sync, Close,
\* meta.Size = written, os.Rename(blob.tmp, blob). When blob.tmp is gone the
\* rename fails and Put returns the error.
PutRename(r) ==
  /\ ppc[r] = "copy"
  /\ pc[r] = "wait"
  /\ meta' = [meta EXCEPT ![r].size = woff[r]]
  /\ fd' = [fd EXCEPT ![r] = 0]
  /\ IF tmpIno = 0
       THEN /\ perr' = [perr EXCEPT ![r] = TRUE]
            /\ ppc' = [ppc EXCEPT ![r] = "done"]
            /\ UNCHANGED <<blobIno, tmpIno>>
       ELSE /\ blobIno' = tmpIno
            /\ tmpIno' = 0
            /\ ppc' = [ppc EXCEPT ![r] = "savemeta"]
            /\ UNCHANGED perr
  /\ inodes' = Reclaim(inodes, blobIno', tmpIno', fd', rvfd)
  /\ UNCHANGED <<pc, metaFile, idxV, lockV, woff, copyErr, up, outV, rvV, delV,
                 envV, histV, restV>>

\* Store.Put, SaveMetadata(metaPath, meta): the sidecar is written to
\* meta.json.tmp and renamed over meta.json.
PutSaveMeta(r) ==
  /\ ppc[r] = "savemeta"
  /\ metaFile' = meta[r]
  /\ ppc' = [ppc EXCEPT ![r] = "done"]
  /\ UNCHANGED <<pc, blobIno, tmpIno, inodes, idxV, lockV, meta, fd, woff, perr,
                 copyErr, up, outV, rvV, delV, envV, histV, restV>>

\* fetchAndCache after <-errCh that returns on an error without deleting
\* the entry.
MissFinish_NoCleanup(r) ==
  /\ pc[r] = "wait"
  /\ ppc[r] = "done"
  /\ IF copyErr[r] \/ perr[r]
       THEN /\ stats' = [stats EXCEPT !.misses = @ + 1]
            /\ pc' = [pc EXCEPT ![r] = Ret(r)]
            /\ UNCHANGED index
       ELSE /\ index' = IndexEntry(meta[r])
            /\ stats' = [stats EXCEPT !.misses = @ + 1]
            /\ pc' = [pc EXCEPT ![r] = Ret(r)]
  /\ UNCHANGED <<diskV, lockV, putV, outV, rvV, delV, envV, histV, restV>>

\* fetchAndCache after <-errCh: on copyErr or cacheErr go and delete the
\* entry; otherwise updateCacheIndex, the by-path symlink and the misses stat.
MissFinish(r) ==
  /\ pc[r] = "wait"
  /\ ppc[r] = "done"
  /\ IF copyErr[r] \/ perr[r]
       THEN /\ pc' = [pc EXCEPT ![r] = "cleanup"]
            /\ UNCHANGED <<index, stats>>
       ELSE /\ index' = IndexEntry(meta[r])
            /\ stats' = [stats EXCEPT !.misses = @ + 1]
            /\ pc' = [pc EXCEPT ![r] = Ret(r)]
  /\ UNCHANGED <<diskV, lockV, putV, outV, rvV, delV, envV, histV, restV>>

\* Store.Delete called by the cleanup: os.Remove(blobPath).
CleanupBlob(r) ==
  /\ pc[r] = "cleanup"
  /\ blobIno' = 0
  /\ inodes' = Reclaim(inodes, 0, tmpIno, fd, rvfd)
  /\ pc' = [pc EXCEPT ![r] = "cleanup2"]
  /\ UNCHANGED <<tmpIno, metaFile, idxV, lockV, putV, outV, rvV, delV, envV, histV, restV>>

\* Store.Delete called by the cleanup: os.Remove(metaPath); then the misses
\* stat and the return.
CleanupMeta(r) ==
  /\ pc[r] = "cleanup2"
  /\ metaFile' = NoMeta
  /\ stats' = [stats EXCEPT !.misses = @ + 1]
  /\ pc' = [pc EXCEPT ![r] = Ret(r)]
  /\ UNCHANGED <<blobIno, tmpIno, inodes, index, lockV, putV, outV, rvV, delV,
                 envV, histV, restV>>


\* ------------------------------------------------------------- proxy: hit
\* IsStale with the comparison weakened to "at least cache_ttl".
IsStale_AtLeast(m, t) == t - m.createdAt >= CacheTTL

\* Metadata.IsStale, with time.Since(m.CreatedAt) as t - createdAt.
IsStale(m, t) == t - m.createdAt > CacheTTL

\* Net effect of io.Copy(w, f) under a declared Content-Length: the server
\* sends the file's bytes, at most Content-Length of them.
Served(bytes, clen) == SubSeq(bytes, 1, IF Len(bytes) < clen THEN Len(bytes) ELSE clen)

\* serveFromCache, Store.Get: LoadMetadata. A missing sidecar, or one that
\* does not parse, is an error and ServeHTTP answers 500 "cache error".
HitLoad(r) ==
  /\ pc[r] = "hit"
  /\ IF metaFile \in {NoMeta, BadMeta}
       THEN /\ resp' = [resp EXCEPT ![r] = Resp(500, "", "", 0)]
            /\ pc' = [pc EXCEPT ![r] = Ret(r)]
            /\ UNCHANGED meta
       ELSE /\ meta' = [meta EXCEPT ![r] = metaFile]
            /\ pc' = [pc EXCEPT ![r] = "open"]
            /\ UNCHANGED resp
  /\ UNCHANGED <<diskV, idxV, lockV, fd, woff, ppc, perr, copyErr, up, sent,
                 seen, rvV, delV, envV, histV, restV>>

\* serveFromCache, Store.Get: os.Open(blobPath). A missing blob is an error
\* and ServeHTTP answers 500 "cache error".
HitOpen(r) ==
  /\ pc[r] = "open"
  /\ IF blobIno = 0
       THEN /\ resp' = [resp EXCEPT ![r] = Resp(500, "", "", 0)]
            /\ pc' = [pc EXCEPT ![r] = Ret(r)]
            /\ UNCHANGED fd
       ELSE /\ fd' = [fd EXCEPT ![r] = blobIno]
            /\ pc' = [pc EXCEPT ![r] = "update"]
            /\ UNCHANGED resp
  /\ UNCHANGED <<diskV, idxV, lockV, meta, woff, ppc, perr, copyErr, up, sent,
                 seen, rvV, delV, envV, histV, restV>>

\* serveFromCache: meta.UpdateAccess() and Store.UpdateMetadata, which
\* writes the sidecar (creating the directory again if need be).
HitUpdate(r) ==
  /\ pc[r] = "update"
  /\ meta' = [meta EXCEPT ![r].lastAccess = now, ![r].hits = @ + 1]
  /\ metaFile' = meta'[r]
  /\ pc' = [pc EXCEPT ![r] = "hindex"]
  /\ UNCHANGED <<blobIno, tmpIno, inodes, idxV, lockV, fd, woff, ppc, perr,
                 copyErr, up, outV, rvV, delV, envV, histV, restV>>

\* serveFromCache: updateCacheIndex, the stale check, the spawn of the
\* revalidate goroutine and the response headers.
HitIndex(r) ==
  /\ pc[r] = "hindex"
  /\ index' = IndexEntry(meta[r])
  /\ LET isStale == IsStale(meta[r], now) IN
       /\ seen' = [seen EXCEPT ![r].age = now - meta[r].createdAt]
       /\ rv' = [rv EXCEPT ![r] = IF isStale /\ swr THEN "do" ELSE @]
       /\ resp' = [resp EXCEPT ![r] =
             Resp(0, "HIT", IF isStale THEN "STALE" ELSE "FRESH", 0)]
  /\ pc' = [pc EXCEPT ![r] = "serve"]
  /\ UNCHANGED <<diskV, stats, lockV, putV, sent, rvup, rvmeta, rvfd, rvoff,
                 delV, envV, histV, restV>>

\* serveFromCache without a Range header: Content-Length = meta.Size, 200,
\* io.Copy(w, f), the hits stat, and the deferred f.Close().
HitServe(r) ==
  /\ pc[r] = "serve"
  /\ rangeHdr = <<>>
  /\ resp' = [resp EXCEPT ![r].status = 200, ![r].clen = meta[r].size]
  /\ sent' = [sent EXCEPT ![r] = Served(inodes[fd[r]], meta[r].size)]
  /\ stats' = [stats EXCEPT !.hits = @ + 1]
  /\ fd' = [fd EXCEPT ![r] = 0]
  /\ inodes' = Reclaim(inodes, blobIno, tmpIno, fd', rvfd)
  /\ pc' = [pc EXCEPT ![r] = Ret(r)]
  /\ UNCHANGED <<blobIno, tmpIno, metaFile, index, lockV, meta, woff, ppc, perr,
                 copyErr, up, seen, rvV, delV, envV, histV, restV>>

\* ------------------------------------------------------ proxy: range hits
\* Strings are sequences of one-character strings.
Digits == <<"0", "1", "2", "3", "4", "5", "6", "7", "8", "9">>
IsDigit(c) == \E i \in 1..Len(Digits) : Digits[i] = c
DigitVal(c) == (CHOOSE i \in 1..Len(Digits) : Digits[i] = c) - 1

BytesEq == <<"b", "y", "t", "e", "s", "=">>

\* strings.HasPrefix, strings.TrimPrefix
HasPrefix(s, p) == Len(s) >= Len(p) /\ SubSeq(s, 1, Len(p)) = p
TrimPrefix(s, p) == IF HasPrefix(s, p) THEN SubSeq(s, Len(p) + 1, Len(s)) ELSE s

\* strings.TrimSpace
RECURSIVE TrimSpace(_)
TrimSpace(s) ==
  IF s # <<>> /\ Head(s) = " " THEN TrimSpace(Tail(s))
  ELSE IF s # <<>> /\ s[Len(s)] = " " THEN TrimSpace(SubSeq(s, 1, Len(s) - 1))
  ELSE s

\* strings.Split(s, c) for a one-character separator
RECURSIVE Split(_, _)
Split(s, c) ==
  IF \E i \in 1..Len(s) : s[i] = c
    THEN LET i == CHOOSE i \in 1..Len(s) : s[i] = c /\ \A j \in 1..(i - 1) : s[j] # c
         IN <<SubSeq(s, 1, i - 1)>> \o Split(SubSeq(s, i + 1, Len(s)), c)
    ELSE <<s>>

\* The value of a string of decimal digits.
RECURSIVE DecVal(_)
DecVal(s) ==
  IF s = <<>> THEN 0 ELSE 10 * DecVal(SubSeq(s, 1, Len(s) - 1)) + DigitVal(s[Len(s)])

\* strconv.ParseInt(s, 10, 64): an optional sign and at least one digit.
ParseInt(s) ==
  LET signed == s # <<>> /\ Head(s) \in {"+", "-"}
      ds == IF signed THEN Tail(s) ELSE s
  IN IF ds = <<>> \/ \E i \in 1..Len(ds) : ~IsDigit(ds[i])
       THEN [err |-> TRUE, val |-> 0]
       ELSE [err |-> FALSE,
             val |-> IF signed /\ Head(s) = "-" THEN 0 - DecVal(ds) ELSE DecVal(ds)]

RangeErr == [err |-> TRUE, rng |-> [start |-> 0, end |-> 0, length |-> 0]]
RangeOk(st, en, ln) == [err |-> FALSE, rng |-> [start |-> st, end |-> en, length |-> ln]]

\* parseRange with the clamp of the end left out.
ClampEnd_None(end, size) == end

\* parseRange: if end >= size { end = size - 1 }
ClampEnd(end, size) == IF end >= size THEN size - 1 ELSE end

\* parseRange: the body of the loop, for one comma-separated part.
ParsePart(p, size) ==
  LET part == TrimSpace(p) IN
    IF HasPrefix(part, <<"-">>)
      THEN LET n == ParseInt(Tail(part)) IN
             IF n.err THEN RangeErr
             ELSE LET suffix == IF n.val > size THEN size ELSE n.val
                  IN RangeOk(size - suffix, size - 1, suffix)
      ELSE LET pos == Split(part, "-") IN
             IF Len(pos) # 2 THEN RangeErr
             ELSE LET st == ParseInt(pos[1])
                      en == IF pos[2] = <<>> THEN [err |-> FALSE, val |-> size - 1]
                            ELSE ParseInt(pos[2])
                  IN IF st.err \/ en.err THEN RangeErr
                     ELSE IF st.val > en.val \/ st.val >= size THEN RangeErr
                     ELSE LET end == ClampEnd(en.val, size)
                          IN RangeOk(st.val, end, end - st.val + 1)

\* parseRange: the loop over the parts; the first error ends it.
RECURSIVE ParseParts(_, _)
ParseParts(parts, size) ==
  IF parts = <<>> THEN [err |-> FALSE, ranges |-> <<>>]
  ELSE LET one == ParsePart(Head(parts), size) IN
         IF one.err THEN [err |-> TRUE, ranges |-> <<>>]
         ELSE LET rest == ParseParts(Tail(parts), size) IN
                IF rest.err THEN rest
                ELSE [err |-> FALSE, ranges |-> <<one.rng>> \o rest.ranges]

\* parseRange
parseRange(s, size) ==
  IF ~HasPrefix(s, BytesEq) THEN [err |-> TRUE, ranges |-> <<>>]
  ELSE ParseParts(Split(TrimPrefix(s, BytesEq), ","), size)

\* f.Seek(start, 0) then io.CopyN(w, f, n): up to n bytes from offset start.
CopyN(bytes, start, n) ==
  IF n <= 0 \/ start >= Len(bytes) THEN <<>>
  ELSE SubSeq(bytes, start + 1, IF start + n < Len(bytes) THEN start + n ELSE Len(bytes))

\* serveFromCache with a Range header: serveRange(w, r, f, meta.Size, header)
\* and return, then the deferred f.Close().
HitServeRange(r) ==
  /\ pc[r] = "serve"
  /\ rangeHdr # <<>>
  /\ LET size == meta[r].size
         pr == parseRange(rangeHdr, size)
     IN IF pr.err \/ Len(pr.ranges) # 1
          THEN /\ resp' = [resp EXCEPT ![r].status = 416,
                             ![r].crange = [star |-> TRUE, start |-> 0, end |-> 0, size |-> size]]
               /\ UNCHANGED sent
          ELSE LET rng == pr.ranges[1] IN
                 IF rng.start < 0
                   THEN /\ resp' = [resp EXCEPT ![r].status = 500]
                        /\ UNCHANGED sent
                   ELSE /\ resp' = [resp EXCEPT ![r].status = 206,
                                      ![r].clen = rng.length,
                                      ![r].crange = [star |-> FALSE, start |-> rng.start,
                                                     end |-> rng.end, size |-> size]]
                        /\ sent' = [sent EXCEPT ![r] = CopyN(inodes[fd[r]], rng.start, rng.length)]
  /\ fd' = [fd EXCEPT ![r] = 0]
  /\ inodes' = Reclaim(inodes, blobIno, tmpIno, fd', rvfd)
  /\ pc' = [pc EXCEPT ![r] = Ret(r)]
  /\ UNCHANGED <<blobIno, tmpIno, metaFile, idxV, lockV, meta, woff, ppc, perr,
                 copyErr, up, seen, rvV, delV, envV, histV, restV>>

\* ------------------------------------------------------- proxy: revalidate
\* What the upstream may answer a revalidation carrying If-None-Match etag:
\* 304 when the tag is the current version's, 200 with the current body, or
\* something else (status 500), or no answer at all (status 0).
RevalResponses(etag) ==
  {200, 500, 0} \cup (IF etag = upVer THEN {304} ELSE {})

\* revalidate: the conditional GET. On 200 newMeta is built here, with the
\* hit counter of the metadata the hit handed over.
RvDo(r) ==
  /\ rv[r] = "do"
  /\ gets' = [gets EXCEPT !.reval = @ + 1]
  /\ \E st \in RevalResponses(meta[r].etag) :
       /\ rvup' = [rvup EXCEPT ![r] = [status |-> st, cc |-> <<>>, ver |-> upVer]]
       /\ rv' = [rv EXCEPT ![r] =
             IF st = 304 THEN "fresh" ELSE IF st = 200 THEN "create" ELSE "done"]
       /\ rvmeta' = [rvmeta EXCEPT ![r] =
             IF st = 200
               THEN [size |-> 0, etag |-> upVer, createdAt |-> now,
                     lastAccess |-> now, hits |-> meta[r].hits]
               ELSE @]
  /\ UNCHANGED <<pc, diskV, idxV, lockV, putV, outV, rvfd, rvoff, delV, now,
                 upVer, swr, histV, restV>>

\* revalidate, 304: meta.CreatedAt = time.Now() on the metadata object of
\* the hit, then Store.UpdateMetadata.
RvFresh(r) ==
  /\ rv[r] = "fresh"
  /\ meta' = [meta EXCEPT ![r].createdAt = now]
  /\ metaFile' = meta'[r]
  /\ rv' = [rv EXCEPT ![r] = "done"]
  /\ UNCHANGED <<pc, blobIno, tmpIno, inodes, idxV, lockV, fd, woff, ppc, perr,
                 copyErr, up, outV, rvup, rvmeta, rvfd, rvoff, delV, envV, histV, restV>>

\* revalidate, 200, Store.Put: MkdirAll and os.Create(blob.tmp).
RvCreate(r) ==
  /\ rv[r] = "create"
  /\ LET i == CreateTmp IN
       /\ tmpIno' = i
       /\ inodes' = [inodes EXCEPT ![i] = <<>>]
       /\ rvfd' = [rvfd EXCEPT ![r] = i]
  /\ rvoff' = [rvoff EXCEPT ![r] = 0]
  /\ rv' = [rv EXCEPT ![r] = "copy"]
  /\ UNCHANGED <<pc, blobIno, metaFile, idxV, lockV, putV, outV, rvup, rvmeta,
                 delV, envV, histV, restV>>

\* revalidate, 200, Store.Put: one round of io.Copy(f, resp.Body). A read
\* error removes blob.tmp and ends the revalidation; at the end of the body
\* come Sync, Close, meta.Size = written and os.Rename(blob.tmp, blob),
\* which fails when blob.tmp is gone.
RvCopy(r, fail) ==
  /\ rv[r] = "copy"
  /\ LET body == Body(rvup[r].ver) IN
       \/ /\ rvoff[r] < Len(body)
          /\ inodes' = [inodes EXCEPT ![rvfd[r]] = WriteAt(@, rvoff[r], body[rvoff[r] + 1])]
          /\ rvoff' = [rvoff EXCEPT ![r] = @ + 1]
          /\ UNCHANGED <<blobIno, tmpIno, rvfd, rv, rvmeta>>
       \/ /\ fail
          /\ rvoff[r] < Len(body)
          /\ tmpIno' = 0
          /\ rvfd' = [rvfd EXCEPT ![r] = 0]
          /\ inodes' = Reclaim(inodes, blobIno, 0, fd, rvfd')
          /\ rv' = [rv EXCEPT ![r] = "done"]
          /\ UNCHANGED <<blobIno, rvoff, rvmeta>>
       \/ /\ rvoff[r] = Len(body)
          /\ rvmeta' = [rvmeta EXCEPT ![r].size = rvoff[r]]
          /\ rvfd' = [rvfd EXCEPT ![r] = 0]
          /\ IF tmpIno = 0
               THEN /\ rv' = [rv EXCEPT ![r] = "done"]
                    /\ UNCHANGED <<blobIno, tmpIno>>
               ELSE /\ blobIno' = tmpIno
                    /\ tmpIno' = 0
                    /\ rv' = [rv EXCEPT ![r] = "savemeta"]
          /\ inodes' = Reclaim(inodes, blobIno', tmpIno', fd, rvfd')
          /\ UNCHANGED rvoff
  /\ UNCHANGED <<pc, metaFile, idxV, lockV, putV, outV, rvup, delV, envV, histV, restV>>

\* revalidate, 200, Store.Put: SaveMetadata(metaPath, newMeta). When it
\* fails (the sidecar's temporary file cannot be written), Put removes the
\* blob at the canonical path and revalidate returns.
RvSaveMeta(r, fail) ==
  /\ rv[r] = "savemeta"
  /\ \/ /\ metaFile' = rvmeta[r]
        /\ rv' = [rv EXCEPT ![r] = "index"]
        /\ UNCHANGED <<blobIno, inodes>>
     \/ /\ fail
        /\ blobIno' = 0
        /\ inodes' = Reclaim(inodes, 0, tmpIno, fd, rvfd)
        /\ rv' = [rv EXCEPT ![r] = "done"]
        /\ UNCHANGED metaFile
  /\ UNCHANGED <<pc, tmpIno, idxV, lockV, putV, outV, rvup, rvmeta, rvfd, rvoff,
                 delV, envV, histV, restV>>

\* revalidate, 200: updateCacheIndex(repo, key, newMeta); the revalidation
\* ends having replaced the entry.
RvIndex(r) ==
  /\ rv[r] = "index"
  /\ index' = IndexEntry(rvmeta[r])
  /\ rv' = [rv EXCEPT ![r] = "updated"]
  /\ UNCHANGED <<pc, diskV, stats, lockV, putV, outV, rvup, rvmeta, rvfd, rvoff,
                 delV, envV, histV, restV>>

\* ---------------------------------------------------------- destroy paths
\* Janitor.cleanup, Janitor.EvictStale, PurgeByURL and PurgeByRegex all list
\* the index and, for each entry they select, call Store.Delete and then
\* Index.Delete. A run starts here when the key's row is listed and selected.
DelStart ==
  /\ dpc = "idle"
  /\ druns < MaxRuns
  /\ index # NoEntry
  /\ dpc' = "blob"
  /\ druns' = druns + 1
  /\ UNCHANGED <<pc, diskV, idxV, lockV, putV, outV, rvV, envV, histV, restV>>

\* Store.Delete: os.Remove(blobPath); a missing file is not an error.
DelBlob ==
  /\ dpc = "blob"
  /\ blobIno' = 0
  /\ inodes' = Reclaim(inodes, 0, tmpIno, fd, rvfd)
  /\ dpc' = "meta"
  /\ UNCHANGED <<pc, tmpIno, metaFile, idxV, lockV, putV, outV, rvV, druns, envV,
                 histV, restV>>

\* Store.Delete: os.Remove(metaPath).
DelMeta ==
  /\ dpc = "meta"
  /\ metaFile' = NoMeta
  /\ dpc' = "index"
  /\ UNCHANGED <<pc, blobIno, tmpIno, inodes, idxV, lockV, putV, outV, rvV, druns,
                 envV, histV, restV>>

\* Index.Delete(repo, key).
DelIndex ==
  /\ dpc = "index"
  /\ index' = NoEntry
  /\ dpc' = "idle"
  /\ UNCHANGED <<pc, diskV, stats, lockV, putV, outV, rvV, druns, envV, histV, restV>>

\* ------------------------------------------- destroy paths, whole cache
Keys == 1..NKeys
Urls == {"u1", "u2"}

\* The index bucket: a row or NoEntry per key. The cache directory: the keys
\* that have a blob, and those that have a meta.json.
EmptyCat == [index |-> [k \in Keys |-> NoEntry], blobs |-> {}, metas |-> {}]

\* A stored record that json.Unmarshal rejects, and the test the ForEach
\* callbacks make of a key's value: present and decodable.
BadRow == [bad |-> TRUE]
Decodes(v) == v # NoEntry /\ v # BadRow

\* Index.TotalSize: the sum of the rows' sizes.
RECURSIVE SizeUpTo(_, _)
SizeUpTo(idx, n) ==
  IF n = 0 THEN 0
  ELSE SizeUpTo(idx, n - 1) + (IF Decodes(idx[n]) THEN idx[n].size ELSE 0)
TotalSize(idx) == SizeUpTo(idx, NKeys)

\* Index.ListAll: the rows in the bucket's key order.
RECURSIVE ListUpTo(_, _)
ListUpTo(idx, n) ==
  IF n = 0 THEN <<>>
  ELSE ListUpTo(idx, n - 1) \o (IF Decodes(idx[n]) THEN <<idx[n]>> ELSE <<>>)
ListAll(idx) == ListUpTo(idx, NKeys)

\* ListByLRU, inner loop of the insertion sort: the new last element moves
\* left while it is Before its neighbour.
RECURSIVE Insert(_, _)
Insert(sorted, x) ==
  IF sorted = <<>> \/ ~(x.lastAccess < sorted[Len(sorted)].lastAccess)
    THEN Append(sorted, x)
    ELSE Append(Insert(SubSeq(sorted, 1, Len(sorted) - 1), x), sorted[Len(sorted)])

RECURSIVE SortLRU(_)
SortLRU(s) ==
  IF s = <<>> THEN <<>> ELSE Insert(SortLRU(SubSeq(s, 1, Len(s) - 1)), s[Len(s)])

\* ListByLRU without the cut at limit.
ListByLRU_NoLimit(idx, limit) == SortLRU(ListAll(idx))

\* ListByLRU without the sort.
ListByLRU_Unsorted(idx, limit) ==
  LET es == ListAll(idx) IN
    IF limit > 0 /\ Len(es) > limit THEN SubSeq(es, 1, limit) ELSE es

\* Index.ListByLRU(limit)
ListByLRU(idx, limit) ==
  LET es == SortLRU(ListAll(idx)) IN
    IF limit > 0 /\ Len(es) > limit THEN SubSeq(es, 1, limit) ELSE es

\* Store.Delete that reports only a failure to remove the blob.
DeleteErr_BlobOnly(bfail, mfail) == bfail

\* Store.Delete: the error it returns when removing the blob (bfail) or the
\* sidecar (mfail) fails.
DeleteErr(bfail, mfail) == bfail \/ mfail

\* A destroy routine at rest; before is the index its last run started from.
IdleRun(idx) ==
  [kind |-> "none", pc |-> "sleep", list |-> <<>>, i |-> 0, total |-> 0,
   freed |-> 0, arg |-> {}, err |-> FALSE, before |-> idx, failed |-> {},
   count |-> 0]

engV == <<pc, diskV, idxV, lockV, putV, outV, rvV, delV, envV, histV, rangeHdr,
          sup, rt, adm, lst>>

\* Janitor.run: the call of cleanup at start, or the ticker firing.
JanitorWake ==
  /\ run.pc = "sleep"
  /\ run' = [run EXCEPT !.pc = "due"]
  /\ UNCHANGED <<engV, cat>>

\* Janitor.cleanup up to the loop: TotalSize, the comparison with maxSize,
\* ListByLRU(0).
CleanupStart ==
  /\ run.pc = "due"
  /\ LET total == TotalSize(cat.index) IN
       run' = IF total <= MaxSizeBytes
                THEN [IdleRun(cat.index) EXCEPT !.kind = "cleanup", !.total = total]
                ELSE [IdleRun(cat.index) EXCEPT !.kind = "cleanup", !.total = total,
                        !.pc = "loop", !.list = ListByLRU(cat.index, 0), !.i = 1]
  /\ UNCHANGED <<engV, cat>>

\* EvictStale(inactiveTTL), PurgeByURL (arg: the singleton of the url) and
\* PurgeByRegex (arg: the urls the regex matches) up to their loops: ListAll.
RunStart(kind, arg) ==
  /\ run.pc = "sleep"
  /\ run' = [IdleRun(cat.index) EXCEPT !.kind = kind, !.arg = arg, !.pc = "loop",
               !.list = ListAll(cat.index), !.i = 1]
  /\ UNCHANGED <<engV, cat>>

\* A caller of Index.ListByLRU(limit): the call and what it returns.
ListCall ==
  /\ lst.pc = "idle"
  /\ lst' = [lst EXCEPT !.pc = "done", !.out = ListByLRU(cat.index, lst.limit)]
  /\ UNCHANGED <<pc, diskV, idxV, lockV, putV, outV, rvV, delV, envV, histV,
                 rangeHdr, cat, run, sup, rt, adm>>

\* A loop that selects every entry.
Selected_All(e) == TRUE

\* The loop's test of the entry e.
Selected(e) ==
  CASE run.kind = "stale" -> now - e.lastAccess > InactiveTTL
    [] run.kind \in {"url", "regex"} -> e.url \in run.arg
    [] OTHER -> TRUE

\* The loop is over: no entry left, or cleanup's break.
LoopOver ==
  \/ run.i > Len(run.list)
  \/ run.kind = "cleanup" /\ run.total - run.freed <= MaxSizeBytes

RunEnd ==
  /\ run.pc = "loop" /\ LoopOver
  /\ run' = [run EXCEPT !.pc = "sleep"]
  /\ UNCHANGED <<engV, cat>>

\* An entry the loop does not select.
RunSkip ==
  /\ run.pc = "loop" /\ ~LoopOver
  /\ ~Selected(run.list[run.i])
  /\ run' = [run EXCEPT !.i = @ + 1]
  /\ UNCHANGED <<engV, cat>>

\* Store.Delete of the selected entry: both removals are tried; on an error
\* the loop logs and continues with the next entry.
RunStoreDelete(fails) ==
  /\ run.pc = "loop" /\ ~LoopOver
  /\ Selected(run.list[run.i])
  /\ LET k == run.list[run.i].key IN
       \E bfail, mfail \in (IF fails THEN BOOLEAN ELSE {FALSE}) :
         /\ cat' = [cat EXCEPT !.blobs = IF bfail THEN @ ELSE @ \ {k},
                               !.metas = IF mfail THEN @ ELSE @ \ {k}]
         /\ run' = IF DeleteErr(bfail /\ k \in cat.blobs, mfail /\ k \in cat.metas)
                     THEN [run EXCEPT !.err = TRUE, !.i = @ + 1, !.failed = @ \cup {k}]
                     ELSE [run EXCEPT !.err = FALSE, !.pc = "index"]
  /\ UNCHANGED engV

\* Index.Delete of the entry, then the counters.
RunIndexDelete ==
  /\ run.pc = "index"
  /\ LET e == run.list[run.i] IN
       /\ cat' = [cat EXCEPT !.index[e.key] = NoEntry]
       /\ run' = [run EXCEPT !.pc = "loop", !.i = @ + 1, !.freed = @ + e.size,
                             !.count = @ + 1]
  /\ UNCHANGED engV

\* ------------------------------------------------------------ environment
\* The clock. A tick is a long time for the scheduler: no goroutine that can
\* take a free mutex, and no select whose done channel is closed, sits
\* through one.
Tick ==
  /\ now < MaxTime
  /\ \A r \in Reqs :
       /\ ~(gor[r].st = "waiting" /\ mutex[gor[r].m] = 0)
       /\ ~(pc[r] = "select" /\ gor[r].st = "locked")
  /\ now' = now + 1
  /\ UNCHANGED <<pc, diskV, idxV, lockV, putV, outV, rvV, delV, upVer, gets, swr, histV, restV>>

\* The upstream publishes a new version of the object.
UpstreamChange ==
  /\ upVer < MaxVer
  /\ upVer' = upVer + 1
  /\ UNCHANGED <<pc, diskV, idxV, lockV, putV, outV, rvV, delV, now, gets, swr,
                 histV, restV>>

\* The sidecar on disk is damaged (a torn write after a power loss, a bad
\* sector) while no request is being served: meta.json is still there and
\* no longer parses.
SidecarDamaged ==
  /\ metaFile \notin {NoMeta, BadMeta}
  /\ \A r \in Reqs : pc[r] \in {"start", "done"}
  /\ metaFile' = BadMeta
  /\ UNCHANGED <<pc, blobIno, tmpIno, inodes, idxV, lockV, putV, outV, rvV, delV,
                 envV, histV, restV>>

\* ------------------------------------------------------- kill and restart
\* A miss-path Store.Put of r is under way: called and not yet returned.
InPut(r) == ppc[r] \in {"copy", "savemeta"}

\* The process is killed: goroutines, descriptors and the lock table are
\* gone; the cache directory and index.db stay as they are. The history
\* records whether a miss-path put was under way for a key that had no entry
\* when the put began and has no index row now.
Crash ==
  /\ boot.st = "up"
  /\ boot' = [st |-> "down",
              inPut |-> index = NoEntry /\ \E r \in Reqs : InPut(r) /\ seen[r].fresh]
  /\ pc' = [q \in Reqs |-> "dead"]
  /\ gor' = [q \in Reqs |-> [m |-> 0, st |-> "none"]]
  /\ locksMap' = 0
  /\ mutex' = [m \in Mutexes |-> 0]
  /\ ppc' = [q \in Reqs |-> "none"]
  /\ rv' = [q \in Reqs |-> "none"]
  /\ dpc' = "dead"
  /\ fd' = [q \in Reqs |-> 0]
  /\ rvfd' = [q \in Reqs |-> 0]
  /\ inodes' = Reclaim(inodes, blobIno, tmpIno, fd', rvfd')
  /\ UNCHANGED <<blobIno, tmpIno, metaFile, idxV, deadline, held, fatal, meta,
                 woff, perr, copyErr, up, outV, rvup, rvmeta, rvoff, druns, envV,
                 relAt, restV>>

\* Index.RebuildFromDisk for the key: a row from its meta.json when the
\* sidecar loads and the blob exists.
RebuildFromDisk ==
  IF metaFile \notin {NoMeta, BadMeta} /\ blobIno # 0
    THEN IndexEntry(metaFile) ELSE index

\* main() at the next start: open the store and the index; when the index
\* counts no entry at all (othersEmpty: no row of another key either),
\* rebuild it from the cache directory.
Restart ==
  /\ boot.st = "down"
  /\ boot' = [boot EXCEPT !.st = "restarted"]
  /\ \E othersEmpty \in BOOLEAN :
       index' = IF index = NoEntry /\ othersEmpty THEN RebuildFromDisk ELSE index
  /\ UNCHANGED <<pc, diskV, stats, lockV, putV, outV, rvV, delV, envV, relAt,
                 restV>>

\* ----------------------------------------------------------------- routing
\* cfg.Upstreams in the order the configuration file declares them. A name
\* and a path_prefix are strings; base is base_url as url.Parse decodes it:
\* an error, or a URL with this path.
Upstreams ==
  <<[name |-> <<"a">>, prefix |-> <<>>,
     base |-> [ok |-> TRUE, path |-> <<"/", "m">>]],
    [name |-> <<"b">>, prefix |-> <<"a", "/", "b">>,
     base |-> [ok |-> TRUE, path |-> <<"/", "n">>]],
    [name |-> <<"c">>, prefix |-> <<"/", "c", "/">>,
     base |-> [ok |-> FALSE, path |-> <<>>]]>>

\* cfg.Policies in declaration order; each regex is a literal.
Policies ==
  <<[name |-> "p1", regex |-> <<"x">>], [name |-> "p2", regex |-> <<"b">>]>>

\* The orders in which a range over the map cfg.Upstreams can visit it.
Orders ==
  {o \in [1..Len(Upstreams) -> 1..Len(Upstreams)] :
     \A i, j \in 1..Len(Upstreams) : o[i] = o[j] => i = j}

\* MatchUpstream, the prefix of an upstream: "/name/" by default, and made to
\* start and end with a slash.
NormPrefix(u) ==
  LET p0 == IF u.prefix = <<>> THEN <<"/">> \o u.name \o <<"/">> ELSE u.prefix
      p1 == IF p0[1] # "/" THEN <<"/">> \o p0 ELSE p0
  IN IF p1[Len(p1)] # "/" THEN p1 \o <<"/">> ELSE p1

NoUpstream == [up |-> 0, rest |-> <<>>]

\* MatchUpstream(path) when the range visits the map in the order ord: the
\* first upstream visited whose prefix starts the path.
RECURSIVE MatchFrom(_, _, _)
MatchFrom(path, ord, i) ==
  IF i > Len(ord) THEN NoUpstream
  ELSE LET prefix == NormPrefix(Upstreams[ord[i]]) IN
         IF Len(path) >= Len(prefix) /\ SubSeq(path, 1, Len(prefix)) = prefix
           THEN [up |-> ord[i], rest |-> SubSeq(path, Len(prefix) + 1, Len(path))]
           ELSE MatchFrom(path, ord, i + 1)
MatchUpstream(path, ord) == MatchFrom(path, ord, 1)

\* regexp.MatchString for a literal: the literal occurs in s.
MatchString(re, s) ==
  \E i \in 1..(Len(s) - Len(re) + 1) : SubSeq(s, i, i + Len(re) - 1) = re

\* MatchPolicy(rest): the first policy whose regex matches, 0 for nil.
MatchPolicy(rest) ==
  LET ms == {i \in 1..Len(Policies) : MatchString(Policies[i].regex, rest)} IN
    IF ms = {} THEN 0 ELSE CHOOSE i \in ms : \A j \in ms : i <= j

\* strings.Join(elems, "/")
RECURSIVE JoinSlash(_)
JoinSlash(elems) ==
  IF elems = <<>> THEN <<>>
  ELSE IF Len(elems) = 1 THEN elems[1]
  ELSE elems[1] \o <<"/">> \o JoinSlash(Tail(elems))

\* path.Clean, the pass over the segments: empty and "." segments vanish; a
\* ".." removes the segment before it, is dropped at the root, and is kept
\* at the front of a relative path.
RECURSIVE CleanSegs(_, _, _)
CleanSegs(segs, out, rooted) ==
  IF segs = <<>> THEN out
  ELSE LET g == Head(segs) IN
    IF g = <<>> \/ g = <<".">> THEN CleanSegs(Tail(segs), out, rooted)
    ELSE IF g = <<".", ".">>
      THEN IF out # <<>> /\ out[Len(out)] # <<".", ".">>
             THEN CleanSegs(Tail(segs), SubSeq(out, 1, Len(out) - 1), rooted)
           ELSE IF rooted THEN CleanSegs(Tail(segs), out, rooted)
           ELSE CleanSegs(Tail(segs), Append(out, g), rooted)
    ELSE CleanSegs(Tail(segs), Append(out, g), rooted)

\* path.Clean
Clean(p) ==
  IF p = <<>> THEN <<".">>
  ELSE LET rooted == p[1] = "/"
           out == CleanSegs(Split(p, "/"), <<>>, rooted)
       IN IF rooted THEN <<"/">> \o JoinSlash(out)
          ELSE IF out = <<>> THEN <<".">> ELSE JoinSlash(out)

\* path.Join(a, b): the non-empty elements joined by slashes, cleaned.
Join(a, b) ==
  IF a = <<>> /\ b = <<>> THEN <<>>
  ELSE IF a = <<>> THEN Clean(b)
  ELSE IF b = <<>> THEN Clean(a)
  ELSE Clean(a \o <<"/">> \o b)

\* buildUpstreamURL(baseURL, rest, query): the path of the URL it returns, or
\* the error of url.Parse.
buildUpstreamURL(base, rest) ==
  IF ~base.ok THEN [err |-> TRUE, path |-> <<>>]
  ELSE [err |-> FALSE, path |-> Join(base.path, rest)]

\* ServeHTTP from its first line to the cache key: CONNECT is refused 405; no
\* upstream: 404; base_url does not parse: 400; no policy: 500; otherwise the
\* request goes on to the cache (status 0 so far). ord is the order in which
\* this call's range visits the upstreams.
Classify(ord) ==
  /\ rt.pc = "new"
  /\ LET mu == IF rt.method = "CONNECT" THEN NoUpstream
               ELSE MatchUpstream(rt.path, ord)
         built == IF mu.up = 0 THEN [err |-> FALSE, path |-> <<>>]
                  ELSE buildUpstreamURL(Upstreams[mu.up].base, mu.rest)
         pol == IF mu.up = 0 \/ built.err THEN 0 ELSE MatchPolicy(mu.rest)
         status == IF rt.method = "CONNECT" THEN 405
                   ELSE IF mu.up = 0 THEN 404
                   ELSE IF built.err THEN 400
                   ELSE IF pol = 0 THEN 500
                   ELSE 0
     IN /\ rt' = [rt EXCEPT !.pc = "done", !.up = mu.up, !.rest = mu.rest,
                            !.upath = built.path, !.policy = pol,
                            !.status = status]
        /\ pc' = IF status = 0 THEN [pc EXCEPT ![1] = "start"] ELSE pc
  /\ UNCHANGED <<diskV, idxV, lockV, putV, outV, rvV, delV, envV, histV,
                 rangeHdr, cat, run, sup, adm, lst>>

\* ------------------------------------------------------------ admin: purge
Bearer == <<"B", "e", "a", "r", "e", "r">>

\* strings.SplitN(s, " ", 2)
SplitN2(s) ==
  IF \E i \in 1..Len(s) : s[i] = " "
    THEN LET i == CHOOSE i \in 1..Len(s) : s[i] = " " /\ \A j \in 1..(i - 1) : s[j] # " "
         IN <<SubSeq(s, 1, i - 1), SubSeq(s, i + 1, Len(s))>>
    ELSE <<s>>

\* checkAuth that accepts any token after "Bearer".
checkAuth_AnyToken(hdr, a) ==
  /\ a.enabled
  /\ hdr # <<>>
  /\ LET parts == SplitN2(hdr) IN Len(parts) = 2 /\ parts[1] = Bearer

\* Handler.checkAuth for a request whose Authorization header is hdr.
checkAuth(hdr, a) ==
  /\ a.enabled
  /\ hdr # <<>>
  /\ LET parts == SplitN2(hdr) IN
       Len(parts) = 2 /\ parts[1] = Bearer /\ parts[2] = a.token

\* The paths of the two purge endpoints.
PurgePath(kind) ==
  <<"/", "_", "p", "u", "r", "g", "e", "/", "b", "y", "-">> \o
    (IF kind = "url" THEN <<"u", "r", "l">> ELSE <<"r", "e", "g", "e", "x">>)

\* POST /_purge/by-url (arg: the singleton of the url) or /_purge/by-regex
\* (arg: the urls the regex matches) with the Authorization header hdr. main
\* mounts the purge handlers only when the purge API is enabled; otherwise
\* the request falls to the proxy handler, which answers 404 as no upstream
\* prefix starts the path. The purge handler answers 401 when checkAuth
\* fails; otherwise it lists the index and enters its loop.
PurgeCall(kind, arg, hdr) ==
  /\ run.pc = "sleep"
  /\ IF ~adm.enabled
       THEN /\ adm' = [adm EXCEPT !.hdr = hdr,
                      !.status = IF \A ord \in Orders :
                                      MatchUpstream(PurgePath(kind), ord).up = 0
                                   THEN 404 ELSE 0]
            /\ UNCHANGED run
     ELSE IF ~checkAuth(hdr, adm)
       THEN /\ adm' = [adm EXCEPT !.hdr = hdr, !.status = 401]
            /\ UNCHANGED run
     ELSE /\ adm' = [adm EXCEPT !.hdr = hdr, !.status = 200]
          /\ run' = [IdleRun(cat.index) EXCEPT !.kind = kind, !.arg = arg,
                       !.pc = "loop", !.list = ListAll(cat.index), !.i = 1]
  /\ UNCHANGED <<pc, diskV, idxV, lockV, putV, outV, rvV, delV, envV, histV,
                 rangeHdr, cat, sup, rt, lst>>

\* ---------------------------------------------- process start, whole cache
\* The IndexEntry RebuildFromDisk builds for <dir>/<repo>/<key>/meta.json.
RebuildEntry(k, m) ==
  [key |-> k, url |-> m.url, size |-> m.size, lastAccess |-> m.lastAccess,
   hits |-> m.hits]

\* The walk function that never stats the blob.
WalkFn_NoStat(idx, c, side, k) ==
  IF k \notin c.metas \/ side[k] = BadMeta THEN idx
  ELSE [idx EXCEPT ![k] = RebuildEntry(k, side[k])]

\* RebuildFromDisk, the walk function at the key directory k: nothing without
\* a meta.json; LoadMetadata fails: skip; os.Stat(blob) says not exist: skip;
\* otherwise Index.Put of the entry.
WalkFn(idx, c, side, k) ==
  IF k \notin c.metas THEN idx
  ELSE IF side[k] = BadMeta THEN idx
  ELSE IF k \notin c.blobs THEN idx
  ELSE [idx EXCEPT ![k] = RebuildEntry(k, side[k])]

\* filepath.Walk over the key directories, in lexical order.
RECURSIVE WalkUpTo(_, _, _, _)
WalkUpTo(idx, c, side, n) ==
  IF n = 0 THEN idx ELSE WalkFn(WalkUpTo(idx, c, side, n - 1), c, side, n)

\* Index.RebuildFromDisk(cacheDir) applied to the bucket idx.
RebuildIndex(idx, c, side) == WalkUpTo(idx, c, side, NKeys)

\* Index.Count
Count(idx) == Cardinality({k \in Keys : idx[k] # NoEntry})

\* main() from NewIndex to the start of the janitor: the index is rebuilt
\* from the cache directory when it counts no entry, and kept otherwise.
MainStart ==
  /\ sup.pc = "main"
  /\ LET empty == Count(cat.index) = 0
         idx == IF empty THEN RebuildIndex(cat.index, cat, sup.side) ELSE cat.index IN
       /\ cat' = [cat EXCEPT !.index = idx]
       /\ sup' = [sup EXCEPT !.pc = "serving", !.calls = IF empty THEN 1 ELSE 0,
                              !.first = idx]
  /\ UNCHANGED <<pc, diskV, idxV, lockV, putV, outV, rvV, delV, envV, histV,
                 rangeHdr, run, rt, adm, lst>>

\* A further call of Index.RebuildFromDisk on the same cache directory.
RebuildCall ==
  /\ sup.pc = "serving"
  /\ sup.calls < MaxCalls
  /\ LET idx == RebuildIndex(cat.index, cat, sup.side) IN
       /\ cat' = [cat EXCEPT !.index = idx]
       /\ sup' = [sup EXCEPT !.calls = @ + 1,
                              !.first = IF sup.calls = 0 THEN idx ELSE @]
  /\ UNCHANGED <<pc, diskV, idxV, lockV, putV, outV, rvV, delV, envV, histV,
                 rangeHdr, run, rt, adm, lst>>

\* -------------------------------------------------------------- scenarios
NoSeen == [blob |-> FALSE, age |-> -1, fresh |-> FALSE]
NoUp == [status |-> 0, cc |-> <<>>, ver |-> 0]
ZeroMeta == [size |-> 0, etag |-> 0, createdAt |-> 0, lastAccess |-> 0, hits |-> 0]

\* The sidecar of version 1 fetched by a miss at time 0: what fetchAndCache
\* and Store.Put leave behind.
WarmMetaOf(bytes) == [size |-> Len(bytes), etag |-> 1, createdAt |-> 0,
                      lastAccess |-> 0, hits |-> 1]
WarmMeta == WarmMetaOf(Body(1))

\* The process after construction, with the requests of the set Active about
\* to call ServeHTTP. The cache directory is empty, or (warm) holds the entry
\* a miss at time 0 published and indexed for an upstream body of these bytes.
InitBase(Active, warm, bytes) ==
  /\ now = 0
  /\ pc = [r \in Reqs |-> IF r \in Active THEN "start" ELSE "done"]
  /\ blobIno = (IF warm THEN 1 ELSE 0)
  /\ tmpIno = 0
  /\ inodes = [i \in Inodes |-> IF warm /\ i = 1 THEN bytes ELSE <<>>]
  /\ metaFile = (IF warm THEN WarmMetaOf(bytes) ELSE NoMeta)
  /\ index = (IF warm THEN IndexEntry(WarmMetaOf(bytes)) ELSE NoEntry)
  /\ stats = [hits |-> 0, misses |-> IF warm THEN 1 ELSE 0]
  /\ locksMap = 0
  /\ mutex = [m \in Mutexes |-> 0]
  /\ gor = [r \in Reqs |-> [m |-> 0, st |-> "none"]]
  /\ deadline = [r \in Reqs |-> 0]
  /\ held = [r \in Reqs |-> FALSE]
  /\ fatal = FALSE
  /\ meta = [r \in Reqs |-> ZeroMeta]
  /\ fd = [r \in Reqs |-> 0]
  /\ woff = [r \in Reqs |-> 0]
  /\ ppc = [r \in Reqs |-> "none"]
  /\ perr = [r \in Reqs |-> FALSE]
  /\ copyErr = [r \in Reqs |-> FALSE]
  /\ up = [r \in Reqs |-> NoUp]
  /\ sent = [r \in Reqs |-> <<>>]
  /\ resp = [r \in Reqs |-> Resp(0, "", "", 0)]
  /\ upVer = 1
  /\ gets = [miss |-> IF warm THEN 1 ELSE 0, reval |-> 0]
  /\ rv = [r \in Reqs |-> "none"]
  /\ rvup = [r \in Reqs |-> NoUp]
  /\ rvmeta = [r \in Reqs |-> ZeroMeta]
  /\ rvfd = [r \in Reqs |-> 0]
  /\ rvoff = [r \in Reqs |-> 0]
  /\ dpc = "idle"
  /\ druns = 0
  /\ seen = [r \in Reqs |-> NoSeen]
  /\ relAt = -1
  /\ boot = [st |-> "up", inPut |-> FALSE]

\* Outside their scenarios: the process is serving, no request is being
\* classified, the purge API is off.
NoSup == [pc |-> "serving", side |-> [k \in Keys |-> NoMeta], calls |-> 0,
          was |-> EmptyCat.index, first |-> EmptyCat.index]
NoRt == [pc |-> "idle"]
NoAdm == [enabled |-> FALSE, token |-> <<>>, hdr |-> <<>>, status |-> 0]
NoLst == [pc |-> "idle", limit |-> 0, out |-> <<>>]
InitRest == sup = NoSup /\ rt = NoRt /\ adm = NoAdm /\ lst = NoLst

\* The same with the body of version 1 cached, and requests without a Range
\* header.
InitWith(Active, warm) ==
  /\ InitBase(Active, warm, Body(1))
  /\ rangeHdr = <<>>
  /\ cat = EmptyCat
  /\ run = IdleRun(EmptyCat.index)
  /\ InitRest

\* The steps of ServeHTTP up to the branch into the hit or the miss path,
\* with the lock table.
Front(r) ==
  \/ StatBlob1(r) \/ StatMeta1(r)
  \/ Acquire(r) \/ GoLock(r) \/ SelectDone(r) \/ SelectTimeout(r)
  \/ StatBlob2(r) \/ StatMeta2(r)
  \/ Release(r)

\* serveFromCache
Hit(r) == HitLoad(r) \/ HitOpen(r) \/ HitUpdate(r) \/ HitIndex(r) \/ HitServe(r)

\* Store.Put of the miss path and the end of fetchAndCache
Publish(r) == PutCreate(r) \/ PutRename(r) \/ PutSaveMeta(r) \/ MissFinish(r)

\* Miss scenario: NReq concurrent requests for the key on an empty cache; the
\* upstream answers a cacheable 200 and nothing fails.
InitMiss == InitWith(Reqs, FALSE) /\ swr = FALSE

NextMiss ==
  \/ \E r \in Reqs :
       \/ Front(r) \/ Hit(r) \/ Publish(r)
       \/ Fetch(r, OkResponses) \/ TeeChunk(r, FALSE)
  \/ Tick

SpecMiss == InitMiss /\ [][NextMiss]_vars

\* Fetch scenario: NEng requests on an empty cache; the upstream answers
\* anything and the upstream read or the client write may fail.
InitFetch == InitWith(1..NEng, FALSE) /\ swr = FALSE

NextFetch ==
  \/ \E r \in Reqs :
       \/ Front(r) \/ Hit(r) \/ Publish(r)
       \/ Fetch(r, Responses) \/ TeeChunk(r, TRUE)
       \/ CleanupBlob(r) \/ CleanupMeta(r)
  \/ Tick

SpecFetch == InitFetch /\ [][NextFetch]_vars

\* Hit scenario: NEng requests on a cache holding the entry, under either
\* policy flag, with background revalidation and a changing upstream.
InitHit == InitWith(1..NEng, TRUE) /\ swr \in BOOLEAN

NextHit ==
  \/ \E r \in Reqs :
       \/ StatBlob1(r) \/ StatMeta1(r) \/ Hit(r)
       \/ RvDo(r) \/ RvFresh(r) \/ RvCreate(r) \/ RvCopy(r, TRUE)
       \/ RvSaveMeta(r, TRUE) \/ RvIndex(r)
  \/ UpstreamChange
  \/ Tick

SpecHit == InitHit /\ [][NextHit]_vars

\* Evict scenario: NEng requests on a cache holding the entry while a janitor
\* run or a purge deletes it; no disk or index operation fails.
InitEvict == InitWith(1..NEng, TRUE) /\ swr = FALSE

NextEvict ==
  \/ \E r \in Reqs :
       \/ Front(r) \/ Hit(r) \/ Publish(r)
       \/ Fetch(r, OkResponses) \/ TeeChunk(r, FALSE)
  \/ DelStart \/ DelBlob \/ DelMeta \/ DelIndex
  \/ Tick

SpecEvict == InitEvict /\ [][NextEvict]_vars

\* Range scenario: one request with a Range header (or none) for a cached
\* entry of 0..MaxSize bytes; nothing else runs.
RangeChars == {Digits[d + 1] : d \in 0..MaxSize} \cup {"-", ",", " "}
RangeTexts == UNION {[1..k -> RangeChars] : k \in 0..MaxHdr}
RangeHeaders ==
  {<<>>} \cup {BytesEq \o t : t \in RangeTexts}
         \cup {<<"i", "t", "e", "m", "s", "=", "0", "-", "1">>}
RangeBlob(n) == [i \in 1..n |-> i]

InitRange ==
  /\ \E n \in 0..MaxSize : InitBase({1}, TRUE, RangeBlob(n))
  /\ swr = FALSE
  /\ rangeHdr \in RangeHeaders
  /\ cat = EmptyCat
  /\ run = IdleRun(EmptyCat.index)
  /\ InitRest

NextRange ==
  \E r \in Reqs : StatBlob1(r) \/ StatMeta1(r) \/ Hit(r) \/ HitServeRange(r)

SpecRange == InitRange /\ [][NextRange]_vars

\* A cache left by earlier runs of the process (which started at time 0):
\* every key absent, or indexed with its blob and sidecar on disk.
Rows(k) == [key : {k}, size : 0..MaxSizeBytes, lastAccess : (0 - MaxTime)..0, url : Urls]
Cats ==
  {[index |-> idx, blobs |-> {k \in Keys : idx[k] # NoEntry},
    metas |-> {k \in Keys : idx[k] # NoEntry}] :
     idx \in {f \in [Keys -> UNION {Rows(k) : k \in Keys} \cup {NoEntry}] :
                \A k \in Keys : f[k] = NoEntry \/ f[k].key = k}}

InitCache(cats) ==
  /\ InitBase({}, FALSE, <<>>)
  /\ swr = FALSE
  /\ rangeHdr = <<>>
  /\ cat \in cats
  /\ run = IdleRun(cat.index)
  /\ InitRest

\* Janitor scenario: the janitor goroutine alone, as main starts it; no
\* delete fails.
NextJanitor ==
  \/ JanitorWake \/ CleanupStart \/ RunStoreDelete(FALSE) \/ RunIndexDelete
  \/ RunEnd

JanitorFair ==
  /\ WF_vars(JanitorWake) /\ WF_vars(CleanupStart) /\ WF_vars(RunStoreDelete(FALSE))
  /\ WF_vars(RunIndexDelete) /\ WF_vars(RunEnd)

InitJanitor == InitCache(Cats)

SpecJanitor == InitJanitor /\ [][NextJanitor]_vars

\* Smaller caches: the entries have one byte each and were last accessed
\* long ago or just now.
DestroyCats ==
  {c \in Cats : \A k \in Keys :
     c.index[k] # NoEntry =>
       c.index[k].size = 1 /\ c.index[k].lastAccess \in {0 - MaxTime, 0}}

InitDestroy == InitCache(DestroyCats)

\* The janitor goroutine running for ever: every step it can take is
\* eventually taken.
SpecJanitorLive == InitDestroy /\ [][NextJanitor]_vars /\ JanitorFair

\* Destroy scenario: each of the four destroy routines run on the cache, one
\* at a time, with removals that may fail.

NextDestroy ==
  \/ JanitorWake \/ CleanupStart
  \/ RunStart("stale", {})
  \/ \E u \in Urls : RunStart("url", {u})
  \/ \E us \in SUBSET Urls : RunStart("regex", us)
  \/ RunSkip \/ RunStoreDelete(TRUE) \/ RunIndexDelete \/ RunEnd

SpecDestroy == InitDestroy /\ [][NextDestroy]_vars

\* Startup scenario: main starts on a cache directory and an index.db left
\* by earlier runs or by a kill: per key a blob or none; no meta.json, one
\* that does not parse, or a sidecar; no row, or a row that need not agree
\* with the directory.
Sidecars ==
  {[url |-> "u1", size |-> 1, lastAccess |-> 0, hits |-> 1],
   [url |-> "u2", size |-> 2, lastAccess |-> 0 - 1, hits |-> 2]}

InitStartup ==
  /\ InitBase({}, FALSE, <<>>)
  /\ swr = FALSE
  /\ rangeHdr = <<>>
  /\ \E side \in [Keys -> Sidecars \cup {NoMeta, BadMeta}], blobs \in SUBSET Keys,
        idx \in [Keys -> Sidecars \cup {NoEntry}] :
       /\ cat = [index |-> [k \in Keys |-> IF idx[k] = NoEntry THEN NoEntry
                                            ELSE RebuildEntry(k, idx[k])],
                 blobs |-> blobs,
                 metas |-> {k \in Keys : side[k] # NoMeta}]
       /\ sup = [pc |-> "main", side |-> side, calls |-> 0, was |-> cat.index,
                 first |-> cat.index]
  /\ run = IdleRun(cat.index)
  /\ rt = NoRt /\ adm = NoAdm /\ lst = NoLst

NextStartup == MainStart \/ RebuildCall

SpecStartup == InitStartup /\ [][NextStartup]_vars

\* Route scenario: one request of any method and path arrives at an empty
\* cache; when ServeHTTP lets it through, it runs the miss path.
PathChars == {"/", ".", "x", "b"}
Paths ==
  {h \o t : h \in {<<"/">>, <<"/", "a", "/">>, <<"/", "c", "/">>},
            t \in UNION {[1..n -> PathChars] : n \in 0..MaxTail}}

InitRoute ==
  /\ InitBase({}, FALSE, <<>>)
  /\ swr = FALSE
  /\ rangeHdr = <<>>
  /\ cat = EmptyCat
  /\ run = IdleRun(EmptyCat.index)
  /\ sup = NoSup /\ adm = NoAdm /\ lst = NoLst
  /\ \E method \in {"GET", "CONNECT"}, path \in Paths :
       rt = [pc |-> "new", method |-> method, path |-> path, up |-> 0,
             rest |-> <<>>, upath |-> <<>>, policy |-> 0, status |-> 0]

NextRoute ==
  \/ \E ord \in Orders : Classify(ord)
  \/ \E r \in Reqs :
       \/ StatBlob1(r) \/ StatMeta1(r) \/ Acquire(r) \/ GoLock(r)
       \/ SelectDone(r) \/ StatBlob2(r) \/ StatMeta2(r) \/ Release(r)
       \/ Fetch(r, OkResponses) \/ TeeChunk(r, FALSE) \/ Publish(r)

SpecRoute == InitRoute /\ [][NextRoute]_vars

\* Purge scenario: purge requests, one at a time, with any of these
\* Authorization headers (as net/http hands them over: without leading or
\* trailing blanks), under either setting of the purge API and any of these
\* admin tokens; no delete fails.
AdminTokens == {<<>>, <<"t">>, <<"t", " ", "k">>}
AuthHeaders ==
  {<<>>, Bearer, <<"t">>, <<"b", "e", "a", "r", "e", "r", " ", "t">>,
   <<"B", "a", "s", "i", "c", " ", "t">>, Bearer \o <<" ", " ", "t">>}
    \cup {Bearer \o <<" ">> \o t : t \in {<<"t">>, <<"k">>, <<"t", " ", "k">>}}

InitPurge ==
  /\ InitBase({}, FALSE, <<>>)
  /\ swr = FALSE
  /\ rangeHdr = <<>>
  /\ cat \in DestroyCats
  /\ run = IdleRun(cat.index)
  /\ sup = NoSup /\ rt = NoRt /\ lst = NoLst
  /\ \E en \in BOOLEAN, tok \in AdminTokens :
       adm = [enabled |-> en, token |-> tok, hdr |-> <<>>, status |-> 0]

NextPurge ==
  \/ \E u \in Urls, hdr \in AuthHeaders : PurgeCall("url", {u}, hdr)
  \/ \E us \in SUBSET Urls, hdr \in AuthHeaders : PurgeCall("regex", us, hdr)
  \/ RunSkip \/ RunStoreDelete(FALSE) \/ RunIndexDelete \/ RunEnd

SpecPurge == InitPurge /\ [][NextPurge]_vars

\* Damage scenario: NReq requests on a cache holding the entry, whose
\* sidecar may be damaged between requests.
InitDamage == InitWith(Reqs, TRUE) /\ swr = FALSE

NextDamage ==
  \/ \E r \in Reqs : StatBlob1(r) \/ StatMeta1(r) \/ Hit(r)
  \/ SidecarDamaged

SpecDamage == InitDamage /\ [][NextDamage]_vars

\* Tee scenario: NEng requests on an empty cache; the upstream answers a
\* cacheable 200, upstream read and client write succeed, and the publish
\* task may fail to create blob.tmp or to write to it. Every goroutine that
\* can take a step eventually takes one; no failure is bound to occur.
HandlerStep(r) ==
  \/ Front(r) \/ Hit(r)
  \/ Fetch(r, OkResponses) \/ TeeChunk(r, FALSE) \/ MissFinish(r)
  \/ CleanupBlob(r) \/ CleanupMeta(r)

PutStep(r) == PutCreate(r) \/ PutRename(r) \/ PutSaveMeta(r)

InitTee == InitWith(1..NEng, FALSE) /\ swr = FALSE

NextTee ==
  \/ \E r \in Reqs :
       \/ HandlerStep(r) \/ PutStep(r)
       \/ PutCreateFail(r) \/ PutWriteFail(r)
  \/ Tick

TeeFair ==
  /\ \A r \in Reqs :
       /\ WF_vars(StatBlob1(r) \/ StatMeta1(r) \/ Acquire(r) \/ SelectDone(r)
                    \/ SelectTimeout(r) \/ StatBlob2(r) \/ StatMeta2(r)
                    \/ Release(r) \/ Hit(r) \/ Fetch(r, OkResponses)
                    \/ TeeChunk(r, FALSE) \/ MissFinish(r) \/ CleanupBlob(r)
                    \/ CleanupMeta(r))
       /\ WF_vars(GoLock(r))
       /\ WF_vars(PutStep(r))
  /\ WF_vars(Tick)

SpecTee == InitTee /\ [][NextTee]_vars /\ TeeFair

\* Publish scenario: NEng requests on an empty cache; the upstream answers a
\* cacheable 200; the upstream read, the client write, the creation of
\* blob.tmp and the writes to it may fail.
NextPublish ==
  \/ \E r \in Reqs :
       \/ Front(r) \/ Hit(r) \/ Publish(r)
       \/ Fetch(r, OkResponses) \/ TeeChunk(r, TRUE)
       \/ PutCreateFail(r) \/ PutWriteFail(r)
       \/ CleanupBlob(r) \/ CleanupMeta(r)
  \/ Tick

SpecPublish == InitFetch /\ [][NextPublish]_vars

\* Revalidate-and-destroy scenario: one request for a cached entry, with
\* stale-while-revalidate on, and the revalidation it may start, while a
\* janitor run or a purge deletes the entry.
InitReval == InitWith({1}, TRUE) /\ swr = TRUE

NextReval ==
  \/ \E r \in Reqs :
       \/ StatBlob1(r) \/ StatMeta1(r) \/ Hit(r)
       \/ RvDo(r) \/ RvFresh(r) \/ RvCreate(r) \/ RvCopy(r, TRUE)
       \/ RvSaveMeta(r, TRUE) \/ RvIndex(r)
  \/ DelStart \/ DelBlob \/ DelMeta \/ DelIndex
  \/ UpstreamChange
  \/ Tick

SpecReval == InitReval /\ [][NextReval]_vars

\* List scenario: an index bucket whose keys are absent, hold a row, or hold
\* a record that does not decode, and one call of ListByLRU with a limit.
ListRows(k) == [key : {k}, size : {1}, lastAccess : (0 - MaxTime)..0, url : {"u1"}]

InitList ==
  /\ InitBase({}, FALSE, <<>>)
  /\ swr = FALSE
  /\ rangeHdr = <<>>
  /\ \E idx \in [Keys -> UNION {ListRows(k) : k \in Keys} \cup {NoEntry, BadRow}] :
       /\ \A k \in Keys : Decodes(idx[k]) => idx[k].key = k
       /\ cat = [index |-> idx, blobs |-> {k \in Keys : Decodes(idx[k])},
                 metas |-> {k \in Keys : Decodes(idx[k])}]
  /\ run = IdleRun(cat.index)
  /\ sup = NoSup /\ rt = NoRt /\ adm = NoAdm
  /\ \E limit \in 0..NKeys : lst = [pc |-> "idle", limit |-> limit, out |-> <<>>]

NextList == ListCall

SpecList == InitList /\ [][NextList]_vars

\* Crash scenario: the evict scenario in which the process may be killed at
\* any point and started again.
NextCrash == NextEvict \/ Crash \/ Restart

SpecCrash == InitEvict /\ [][NextCrash]_vars

\* ------------------------------------------------------------------ claims
Holds(r) == held[r] /\ pc[r] \notin {"done", "dead"}
AllDone == \A r \in Reqs : pc[r] \in {"done", "dead"}

\* C1: N concurrent requests for one absent URL whose upstream answer is a
\* cacheable 200 cause exactly one upstream GET in total.
C1_OneUpstreamGet == gets.miss <= 1 /\ (AllDone => gets.miss = 1)

\* C2: when the winner fetched, published and released before a waiter's
\* lock_timeout elapsed, that waiter is not answered 503: every requester
\* that has finished has a 200 with the complete upstream body.
C2_NoWaiterStarves ==
  \A r \in Reqs :
    (pc[r] = "done" /\ relAt # -1 /\ relAt < deadline[r]) =>
      (resp[r].status = 200 /\ sent[r] = Body(1))

\* C3: at most one request holds the coalescing lock of the key at any time.
C3_MutualExclusion == Cardinality({r \in Reqs : Holds(r)}) <= 1

\* A background revalidation's Store.Put is under way.
InRvPut(r) == rv[r] \in {"copy", "savemeta"}

\* C4: at most one put is in progress for the key at any time, miss-path
\* publishes and revalidation publishes counted together.
C4_OnePublisher ==
  Cardinality({r \in Reqs : InPut(r)}) + Cardinality({r \in Reqs : InRvPut(r)}) <= 1

\* C5: whenever the entry exists, the blob at the canonical path is the
\* complete body of one upstream 200 response.
C5_CompleteBlob == Exists => \E v \in Vers : BlobBytes = Body(v)

\* No put stands between its rename of the blob and its SaveMetadata.
NoPutMidway == \A r \in Reqs : ppc[r] # "savemeta" /\ rv[r] # "savemeta"

\* C6: whenever the entry exists, the sidecar's size field equals the byte
\* length of the blob at the canonical path. Stated for the states after
\* publication, in which no put is between its rename and its sidecar write.
C6_SizeTruth == (Exists /\ NoPutMidway) => metaFile.size = Len(BlobBytes)

\* No request, revalidation or deletion is in progress.
Quiet ==
  /\ boot.st = "up"
  /\ \A r \in Reqs : pc[r] = "done" /\ rv[r] \in {"none", "done", "updated"}
  /\ dpc = "idle"

\* C7: whenever nothing is in progress, an index entry has both its blob and
\* its meta.json on disk.
C7_IndexBacked == (Quiet /\ index # NoEntry) => (blobIno # 0 /\ metaFile # NoMeta)

\* C8: after a kill during a miss-path put for a key that had no entry, and
\* the restart, the entry does not exist and the index has no row for the key.
C8_CrashLeavesNothing ==
  (boot.st = "restarted" /\ boot.inPut) => (~Exists /\ index = NoEntry)

\* The response carries the Cache-Control directive d.
Carries(u, d) == \E i \in 1..Len(u.cc) : d \in u.cc[i]

\* The upstream answered r's miss with no-store or private, or not with 200.
Bypassed(u) ==
  u.status # 0 /\ (u.status # 200 \/ Carries(u, "no-store") \/ Carries(u, "private"))

\* What the cache directory holds at the key's paths.
StoreView ==
  [blob |-> IF blobIno = 0 THEN <<"absent">> ELSE <<"file", inodes[blobIno]>>,
   tmp  |-> IF tmpIno = 0 THEN <<"absent">> ELSE <<"file", inodes[tmpIno]>>,
   meta |-> metaFile]

\* C9: a miss whose upstream response carries no-store or private, or whose
\* status is not 200, starts no put, and none of its steps changes the cache
\* directory or the index.
C9_BypassLeavesStore ==
  [][\A r \in Reqs :
       Bypassed(up'[r]) =>
         /\ ppc'[r] = "none"
         /\ pc'[r] # pc[r] => (StoreView' = StoreView /\ index' = index)]_vars

\* r's hit has passed the staleness check of serveFromCache.
Checked(r) == seen[r].age # -1

\* C10: a hit spawns a revalidation exactly when the entry's age exceeds
\* cache_ttl and the policy allows stale-while-revalidate; upstream requests
\* come from spawned revalidations only; the hit is answered HIT with status
\* STALE exactly when the age exceeds cache_ttl, FRESH otherwise.
C10_RevalidateIffStale ==
  /\ \A r \in Reqs :
       /\ rv[r] # "none" => Checked(r)
       /\ Checked(r) =>
            /\ rv[r] # "none" <=> (seen[r].age > CacheTTL /\ swr)
            /\ resp[r].xcache = "HIT"
            /\ resp[r].xstatus = (IF seen[r].age > CacheTTL THEN "STALE" ELSE "FRESH")
       /\ pc[r] = "done" /\ Checked(r) => resp[r].status = 200
  /\ gets.miss = 1
  /\ gets.reval = Cardinality({r \in Reqs : rv[r] \notin {"none", "do"}})

\* A stale hit answered STALE with its revalidation spawned, and another hit
\* of a fresh entry answered FRESH without one.
C10_Witness ==
  \E r, q \in Reqs :
    /\ pc[r] = "done" /\ resp[r].xstatus = "STALE" /\ rv[r] # "none"
    /\ pc[q] = "done" /\ resp[q].xstatus = "FRESH" /\ rv[q] = "none"

\* C11: once a revalidation that received 304 has completed, the sidecar's
\* created_at is the time of that 304 or later: created_at does not move
\* backwards, whatever concurrent hits do.
C11_FreshAfter304 ==
  \A r \in Reqs :
    (rv[r] = "done" /\ rvup[r].status = 304) =>
      (metaFile # NoMeta /\ metaFile.createdAt >= meta[r].createdAt)

\* C12: once a revalidation that received 200 has completed without error,
\* the blob is a complete upstream body no older than the one it fetched, the
\* sidecar carries that body's ETag, a created_at no earlier than the
\* revalidation and the body's length as size, and the index row has that size.
C12_ReplacedBy200 ==
  \A r \in Reqs :
    rv[r] = "updated" =>
      /\ Exists
      /\ metaFile.etag >= rvmeta[r].etag
      /\ BlobBytes = Body(metaFile.etag)
      /\ metaFile.createdAt >= rvmeta[r].createdAt
      /\ metaFile.size = Len(BlobBytes)
      /\ index # NoEntry /\ index.size = Len(BlobBytes)

\* C13: when a revalidation has ended otherwise than by a completed 304
\* update or a completed 200 publish, the entry still exists.
C13_StaleCopyKept ==
  \A r \in Reqs : (rv[r] = "done" /\ rvup[r].status # 304) => Exists

\* C14: no request is answered 500 "cache error".
C14_NoCacheError == \A r \in Reqs : resp[r].status # 500

\* C15: a hit answered 200 has streamed one complete version of the blob and
\* announced that version's length as Content-Length.
C15_OneVersionServed ==
  \A r \in Reqs :
    (pc[r] = "done" /\ resp[r].status = 200 /\ resp[r].xcache = "HIT") =>
      \E v \in Vers : sent[r] = Body(v) /\ resp[r].clen = Len(Body(v))

\* The decimal numeral of n < 100, and the numbers tried in Range headers.
Dec(n) == IF n < 10 THEN <<Digits[n + 1]>> ELSE <<Digits[(n \div 10) + 1], Digits[(n % 10) + 1]>>
Nums == 0..(11 * MaxSize)
MinOf(a, b) == IF a < b THEN a ELSE b

C17_Only206ForValidRange ==
  \A r \in Reqs :
    resp[r].status = 206 =>
      LET c == resp[r].crange IN
        /\ 0 <= c.start /\ c.start <= c.end /\ c.end < c.size
        /\ resp[r].clen = c.end - c.start + 1
        /\ resp[r].clen >= 1

\* The rows of idx at the keys of S only.
Only(idx, S) == [k \in Keys |-> IF k \in S THEN idx[k] ELSE NoEntry]

\* C18: after one cleanup run with no failing delete: nothing is deleted when
\* the total was within max_size_bytes; otherwise the deleted entries are the
\* shortest prefix of the ascending last_access order that brings the total
\* within the limit, gone from store and index, and the others are untouched.
C18_EvictsLruPrefix ==
  (run.kind = "cleanup" /\ run.pc = "sleep") =>
    LET old == run.before
        D == {k \in Keys : old[k] # NoEntry /\ cat.index[k] = NoEntry}
        S == {k \in Keys : old[k] # NoEntry /\ cat.index[k] # NoEntry}
    IN /\ \A k \in S : cat.index[k] = old[k] /\ k \in cat.blobs /\ k \in cat.metas
       /\ \A k \in D : k \notin cat.blobs /\ k \notin cat.metas
       /\ TotalSize(old) <= MaxSizeBytes => D = {}
       /\ TotalSize(old) > MaxSizeBytes =>
            /\ TotalSize(cat.index) <= MaxSizeBytes
            /\ \A d \in D, k \in S : old[k].lastAccess >= old[d].lastAccess
            /\ \E d \in D :
                 /\ \A e \in D : old[e].lastAccess <= old[d].lastAccess
                 /\ TotalSize(Only(old, Keys \ (D \ {d}))) > MaxSizeBytes

\* A cleanup run that evicted some entries and kept a more recent one.
C18_Witness ==
  /\ run.kind = "cleanup" /\ run.pc = "sleep"
  /\ \E d, k \in Keys :
       /\ run.before[d] # NoEntry /\ cat.index[d] = NoEntry
       /\ cat.index[k] # NoEntry
       /\ run.before[d].lastAccess < cat.index[k].lastAccess

\* C19: while the janitor runs, an entry whose last_access is older than
\* inactive_ttl is eventually deleted from the store and the index.
C19_InactiveEvicted ==
  \A k \in Keys :
    (cat.index[k] # NoEntry /\ now - cat.index[k].lastAccess > InactiveTTL)
      ~> (cat.index[k] = NoEntry /\ k \notin cat.blobs /\ k \notin cat.metas)

\* C20: a destroy routine removes an index row only after its store delete of
\* that entry removed blob and sidecar; when the store delete fails the index
\* is left as it is and the loop goes on to the next entry.
C20_StoreBeforeIndex ==
  [][/\ \A k \in Keys :
          (cat.index[k] # NoEntry /\ cat'.index[k] = NoEntry) =>
            /\ k \notin cat.blobs /\ k \notin cat.metas
            /\ k \notin run.failed
            /\ run.pc = "index" /\ run.list[run.i].key = k
     /\ run'.failed \ run.failed # {} =>
          /\ cat'.index = cat.index
          /\ run'.pc = "loop" /\ run'.i = run.i + 1]_vars

\* A purge or inactivity run in which the store delete of one entry failed,
\* its row was kept, and a later entry was deleted from the index.
C20_Witness ==
  /\ run.kind \in {"stale", "url", "regex"}
  /\ \E k, j \in Keys :
       /\ k < j /\ k \in run.failed /\ cat.index[k] # NoEntry
       /\ run.before[j] # NoEntry /\ cat.index[j] = NoEntry

\* C21: starting from an empty index, after RebuildFromDisk has run (once or
\* twice) the index holds, for every key whose blob exists and whose
\* meta.json parses, exactly the row with url, size, last_access and hits of
\* that sidecar, and no row for any other key; the second run leaves the
\* index as the first run left it.
C21_RebuildExact ==
  (Count(sup.was) = 0 /\ sup.calls >= 1) =>
    /\ \A k \in Keys :
         IF k \in cat.blobs /\ sup.side[k] \notin {NoMeta, BadMeta}
           THEN /\ cat.index[k] # NoEntry
                /\ cat.index[k].key = k
                /\ cat.index[k].url = sup.side[k].url
                /\ cat.index[k].size = sup.side[k].size
                /\ cat.index[k].lastAccess = sup.side[k].lastAccess
                /\ cat.index[k].hits = sup.side[k].hits
           ELSE cat.index[k] = NoEntry
    /\ cat.index = sup.first

\* A directory with a complete entry, a sidecar without blob, a blob without
\* sidecar and an unparsable sidecar among its keys, rebuilt twice.
C21_Witness ==
  /\ Count(sup.was) = 0 /\ sup.calls = 2
  /\ \E k \in Keys : k \in cat.blobs /\ sup.side[k] \in Sidecars
  /\ \E k \in Keys : k \notin cat.blobs /\ sup.side[k] \in Sidecars
  /\ \E k \in Keys : k \in cat.blobs /\ sup.side[k] = BadMeta

\* C22: once startup has completed, every index row belongs to a key whose
\* blob is on disk.
C22_StartupDropsBlobless ==
  sup.pc = "serving" => \A k \in Keys : cat.index[k] # NoEntry => k \in cat.blobs

\* C23: whatever order the lookup visits the upstreams in, the upstream it
\* selects for a path is the first in declaration order (Declared) whose
\* normalized prefix starts the path.
Declared == [i \in 1..Len(Upstreams) |-> i]

C23_FirstDeclaredUpstream ==
  (rt.pc = "done" /\ rt.method # "CONNECT") =>
    rt.up = MatchUpstream(rt.path, Declared).up

\* The upstream path p lies at or under the base path.
Inside(p, base) == p = base \/ HasPrefix(p, base \o <<"/">>)

\* C24: for a request that matched an upstream and goes on to the cache and
\* the upstream, the path of the upstream URL lies at or under the path of
\* that upstream's base_url.
C24_NoEscape ==
  (rt.pc = "done" /\ rt.up # 0 /\ rt.status = 0) =>
    Inside(rt.upath, Upstreams[rt.up].base.path)

\* The first declared policy whose regex matches rest, 0 when none does.
FirstPolicy(rest) ==
  IF \A i \in 1..Len(Policies) : ~MatchString(Policies[i].regex, rest) THEN 0
  ELSE IF MatchString(Policies[1].regex, rest) THEN 1 ELSE 2

\* C25: CONNECT is answered 405 whatever the path; otherwise a path no
\* upstream prefix starts is answered 404; otherwise a remainder no policy
\* matches is answered 500; otherwise the request goes on under the first
\* declared policy that matches its remainder. A request answered 405, 404
\* or 500 causes no upstream GET and leaves store, index and lock table as
\* they were.
C25_ClassificationOrder ==
  rt.pc = "done" =>
    /\ IF rt.method = "CONNECT" THEN rt.status = 405
       ELSE IF \A i \in 1..Len(Upstreams) : ~HasPrefix(rt.path, NormPrefix(Upstreams[i]))
         THEN rt.status = 404
       ELSE IF FirstPolicy(rt.rest) = 0 THEN rt.status = 500
       ELSE rt.status = 0 /\ rt.policy = FirstPolicy(rt.rest)
    /\ rt.status \in {405, 404, 500} =>
         /\ gets.miss = 0
         /\ blobIno = 0 /\ tmpIno = 0 /\ metaFile = NoMeta
         /\ index = NoEntry /\ locksMap = 0 /\ \A m \in Mutexes : mutex[m] = 0

\* The keys whose row, when the purge listed the index, had a url the purge
\* asked for.
Asked == {k \in Keys : run.before[k] # NoEntry /\ run.before[k].url \in run.arg}

\* C26: when an authorized purge by URL or by regex has returned, the rows
\* it asked for are gone from the index and their blobs and sidecars from
\* the store, every other row, blob and sidecar is as it was, and the purged
\* count is the number of rows removed.
C26_PurgeExact ==
  (run.kind \in {"url", "regex"} /\ run.pc = "sleep") =>
    /\ \A k \in Keys :
         cat.index[k] = IF k \in Asked THEN NoEntry ELSE run.before[k]
    /\ cat.blobs = {k \in Keys : run.before[k] # NoEntry} \ Asked
    /\ cat.metas = {k \in Keys : run.before[k] # NoEntry} \ Asked
    /\ run.count = Cardinality(Asked)

\* A purge that removed some entries and kept others has returned.
C26_Witness ==
  /\ run.kind \in {"url", "regex"} /\ run.pc = "sleep"
  /\ Asked # {} /\ run.count = Cardinality(Asked)
  /\ \E k \in Keys : cat.index[k] # NoEntry

\* The request carries "Bearer <token>" with the configured admin token.
TokenOk == adm.hdr = Bearer \o <<" ">> \o adm.token

C28_TimeoutTouchesNothing ==
  [][\A r \in Reqs :
       (pc[r] = "select" /\ pc'[r] = "done") =>
         /\ resp'[r].status = 503
         /\ gets' = gets
         /\ <<blobIno, tmpIno, inodes, metaFile, index>>' =
              <<blobIno, tmpIno, inodes, metaFile, index>>
         /\ (\E q \in Reqs \ {r} : Holds(q)) =>
              (locksMap' = locksMap /\ mutex' = mutex)]_vars

\* C29: a request for an entry whose blob exists and whose sidecar does not
\* parse is not answered with an error: every answer given is a 200.
C29_DamagedIsMiss ==
  \A r \in Reqs : (pc[r] = "done" /\ resp[r].status # 0) => resp[r].status = 200

\* C30: a miss request whose publish task has failed while the request is
\* still in the tee eventually returns, its lock released.
C30_TeeTerminates ==
  \A r \in Reqs :
    (pc[r] = "tee" /\ ppc[r] = "done" /\ perr[r]) ~> (pc[r] \in {"done", "dead"})

\* Request r is in fetchAndCache after the upstream answered a cacheable 200.
InMiss(r) == pc[r] \in {"tee", "wait", "cleanup", "cleanup2"}

\* C31: a step of a miss whose client write or disk publish has failed never
\* changes the index, and at the step in which such a miss returns exists is
\* false; a miss returns successfully only after its Put has published blob
\* and sidecar without error, and the index row it then writes has the size
\* of the bytes written.
C31_FailedMissLeavesNothing ==
  [][\A r \in Reqs :
       /\ (InMiss(r) /\ pc'[r] # pc[r] /\ (copyErr'[r] \/ perr'[r])) =>
            index' = index
       /\ (InMiss(r) /\ ~InMiss(r)' /\ pc'[r] # "dead" /\ (copyErr[r] \/ perr[r])) =>
            ~Exists'
       /\ (InMiss(r) /\ ~InMiss(r)' /\ pc'[r] # "dead" /\ ~(copyErr[r] \/ perr[r])) =>
            /\ ppc[r] = "done"
            /\ index' # NoEntry
            /\ index'.size = woff[r] /\ index'.size = Len(sent[r])]_vars

\* One miss whose disk publish failed has returned, another has succeeded
\* and indexed.
C31_Witness ==
  /\ \E r \in Reqs : pc[r] = "done" /\ perr[r] /\ ~copyErr[r] /\ sent[r] # <<>>
  /\ \E r \in Reqs : pc[r] = "done" /\ ~copyErr[r] /\ ~perr[r] /\ ppc[r] = "done"
                        /\ resp[r].xcache = "MISS" /\ resp[r].status = 200
  /\ index # NoEntry

\* The sidecar on disk is a readable metadata record.
Readable(mf) == mf \notin {NoMeta, BadMeta}

\* C32: no step lowers the hits of the sidecar or of the index row, and once
\* every request has returned with no revalidation started, both have grown
\* by exactly the number of requests served from the cache.
C32_HitsMonotone ==
  [][/\ (Readable(metaFile) /\ Readable(metaFile')) => metaFile'.hits >= metaFile.hits
     /\ (index # NoEntry /\ index' # NoEntry) => index'.hits >= index.hits
     /\ ((\A r \in Reqs : pc'[r] = "done" /\ rv'[r] = "none")
           /\ Readable(metaFile') /\ index' # NoEntry) =>
          LET k == Cardinality({r \in Reqs : resp'[r].xcache = "HIT"}) IN
            /\ metaFile'.hits = WarmMeta.hits + k
            /\ index'.hits = WarmMeta.hits + k]_vars

\* The requests that have been answered from the cache.
ServedFromCache ==
  {r \in Reqs : resp[r].xcache = "HIT" /\ resp[r].status \in {200, 206, 416}}

\* C33: the hits statistic equals the number of requests answered from the
\* cache, with 200, 206 or 416, and none of them has raised the misses
\* statistic above the one miss that filled the cache.
C33_EveryHitCounted ==
  /\ stats.hits = Cardinality(ServedFromCache)
  /\ stats.misses = 1

\* The keys whose stored record decodes.
Decodable == {k \in Keys : Decodes(cat.index[k])}

\* C34: what ListByLRU(limit) returned is in non-decreasing last-access
\* order and holds decodable rows of the bucket, each at most once: all of
\* them when limit is 0, otherwise the limit oldest (no row left out is older
\* than a row returned); undecodable records are not in it.
C34_ListByLRU ==
  lst.pc = "done" =>
    LET out == lst.out
        got == {out[i].key : i \in 1..Len(out)}
    IN /\ \A i \in 1..(Len(out) - 1) : out[i].lastAccess <= out[i + 1].lastAccess
       /\ \A i \in 1..Len(out) : out[i].key \in Decodable /\ out[i] = cat.index[out[i].key]
       /\ Cardinality(got) = Len(out)
       /\ Len(out) = IF lst.limit = 0 THEN Cardinality(Decodable)
                     ELSE MinOf(lst.limit, Cardinality(Decodable))
       /\ \A k \in Decodable \ got :
            \A i \in 1..Len(out) : out[i].lastAccess <= cat.index[k].lastAccess

\* A call with a limit that cuts the list, on a bucket whose first key is the
\* most recently used and whose second record does not decode.
C34_Witness ==
  /\ lst.pc = "done" /\ lst.limit = 1 /\ Len(lst.out) = 1
  /\ cat.index[2] = BadRow
  /\ Decodes(cat.index[1]) /\ Decodes(cat.index[3])
  /\ cat.index[3].lastAccess < cat.index[1].lastAccess
  /\ lst.out[1].key = 3

\* No request is between its call of Acquire and the end of its handler,
\* and the process is running.
NoLockUser == ~fatal /\ \A r \in Reqs : gor[r].st = "none" \/ pc[r] = "done"

\* C35: whenever no request is between Acquire and the return of its
\* handler, the lock table has no entry for the key.
C35_TableEmptyAtRest == NoLockUser => locksMap = 0

\* Every request has returned, one of them after a lock timeout and one
\* after holding and releasing the lock.
C35_Witness ==
  /\ NoLockUser
  /\ \A r \in Reqs : pc[r] = "done"
  /\ \E r \in Reqs : resp[r].status = 503
  /\ \E r \in Reqs : held[r] /\ resp[r].status = 200

\* C36: a step of Release never unlocks an unlocked mutex (the fatal error
\* of sync.Mutex), and the Release of request r changes no mutex but the one
\* r locked in Acquire, which r holds before the step and which is free
\* after it.
C36_ReleaseOwnMutex ==
  [][/\ ~fatal'
     /\ \A r \in Reqs :
          (pc[r] = "release" /\ pc'[r] = "done") =>
            /\ \A m \in Mutexes : mutex'[m] # mutex[m] => m = gor[r].m
            /\ mutex[gor[r].m] = r
            /\ mutex'[gor[r].m] = 0]_vars

\* Acquire has returned the lock-timeout error to request r.
TimedOut(r) == pc[r] = "done" /\ resp[r].status = 503

\* C37: once Acquire has returned the timeout error to a request, the
\* goroutine that Acquire started for it does not lock the mutex any more,
\* and no mutex is locked for a request whose Acquire timed out.
C37_NoLockAfterTimeout ==
  [][\A r \in Reqs :
       /\ (TimedOut(r) /\ gor[r].st = "waiting") => gor'[r].st # "locked"
       /\ TimedOut(r)' => \A m \in Mutexes : mutex'[m] # r]_vars

\* C38: whenever nothing is in progress, an entry that exists in the store
\* (blob and meta.json on disk) has a row in the index.
C38_StoredIsIndexed == (Quiet /\ Exists) => index # NoEntry

\* Nothing of the entry is left: no blob, no meta.json, no index row.
Absent == blobIno = 0 /\ metaFile = NoMeta /\ index = NoEntry

\* C39: once a purge or eviction of the entry has completed and the entry
\* is absent, no step of a revalidation task brings back its blob, its
\* meta.json or its index row.
C39_DeletedStaysDeleted ==
  [][(/\ dpc = "idle" /\ druns > 0 /\ Absent
      /\ \E r \in Reqs : rv[r] # "none" /\ rv'[r] # rv[r]) => Absent']_vars
====
